---- MODULE Spec2Model ----
(***************************************************************************)
(* HTMLTestRunner-Modern: the result collector (HTMLTestResult), the       *)
(* process-wide output channels it swaps, and the grouping / counting /    *)
(* classification done by HTMLTestRunner when it renders the report body.  *)
(*                                                                         *)
(* Text is modelled as a sequence of tokens; '' is the empty sequence.     *)
(* Optional values are << >> (None) or <<v>>.                              *)
(***************************************************************************)
EXTENDS Integers, Sequences, FiniteSets, TLC

\* ---------------------------------------------------------------- bounds
MaxResults == 3
MaxSeqResults == 2
MaxWrites == 1

\* ------------------------------------------------------------ TestStatus
PASS == 0
FAIL == 1
ERROR == 2
SKIP == 3

\* ------------------------------------------------------ the driven tests
\* A test identity is (class, method): unittest.TestCase.__eq__ compares
\* the type and the method name.
Tests ==
    { [cls |-> "B", name |-> "m1"],
      [cls |-> "A", name |-> "m1"] }

\* The test driven when the subject is output capture.
SeqTests == { [cls |-> "A", name |-> "m1"] }

NoTest == [cls |-> "", name |-> ""]

\* Labels of the subtests a test body opens (subTest(i=...)).
SubTests == {1}

\* The object an event is about: the test itself (i = 0) or its i-th subtest.
Subject(test, i) == [test |-> test, i |-> i]

\* Outcomes handed to addError / addFailure / addSubTest: err[0], the
\* exception class.  AssertionError is the TestCase.failureException.
FailureOutcomes == {"AssertionError"}
ErrorOutcomes == {"ValueError"}
ErrClasses == FailureOutcomes \cup ErrorOutcomes

\* exc_info tuples of these classes that cannot be formatted (the value is
\* not an exception, the traceback is not a traceback):
\* _exc_info_to_string raises on them.
MalformedFailure == "AssertionError/malformed"
MalformedError == "ValueError/malformed"
MalformedOutcomes == {MalformedFailure, MalformedError}
Reasons == {"why"}

None == << >>
Some(v) == <<v>>

Token(kind, subj, txt) == [kind |-> kind, subj |-> subj, txt |-> txt]

\* Original process channels and the two module-level redirectors.
OrigOut == "orig_stdout"
OrigErr == "orig_stderr"
RedirOut == "stdout_redirector"
RedirErr == "stderr_redirector"
Buffer == "output_buffer"

\* ------------------------------------------------------------------ text
\* A character (or a run of ordinary characters) of a text that no test
\* wrote: it has no kind and no subject.  The markup-special characters
\* &, < and > are always tokens of their own.
Chr(c) == [txt |-> c]

Chars(s) == [k \in 1..Len(s) |-> Chr(s[k])]

\* f'{n}' for a non-negative integer: its decimal digits
Digits == <<"0", "1", "2", "3", "4", "5", "6", "7", "8", "9">>

RECURSIVE FormatInt(_)
FormatInt(n) ==
    IF n < 10 THEN << Digits[n + 1] >>
    ELSE Append(FormatInt(n \div 10), Digits[(n % 10) + 1])

\* xml.sax.saxutils.escape: & first, then > and <
EscapeChar(c) ==
    IF c = "&" THEN "&amp;"
    ELSE IF c = ">" THEN "&gt;"
    ELSE IF c = "<" THEN "&lt;"
    ELSE c

escape(text) == [k \in 1..Len(text) |-> [text[k] EXCEPT !.txt = EscapeChar(@)]]

\* -------------------------------------------------------- TemplateEngine
\* TemplateEngine.I18N; non-ASCII text is written as its code points.
I18N_zh_CN ==
    [title |-> "u6D4Bu8BD5u62A5u544A",
     start_time |-> "u5F00u59CBu65F6u95F4",
     duration |-> "u8FD0u884Cu65F6u957F",
     status |-> "u72B6u6001",
     tester |-> "u6D4Bu8BD5u4EBA",
     test_details |-> "u6D4Bu8BD5u8BE6u60C5",
     summary |-> "u603Bu7ED3",
     failed |-> "u5931u8D25",
     all |-> "u5168u90E8",
     test_suite |-> "u6D4Bu8BD5u5957u4EF6/u6D4Bu8BD5u7528u4F8B",
     total |-> "u603Bu6570",
     pass |-> "u901Au8FC7",
     fail |-> "u5931u8D25",
     error |-> "u9519u8BEF",
     skip |-> "u8DF3u8FC7",
     view |-> "u67E5u770B",
     detail |-> "u8BE6u60C5",
     total_summary |-> "u603Bu8BA1",
     execution_details |-> "u6267u884Cu8BE6u60C5",
     copy |-> "u590Du5236",
     copied |-> "u5DF2u590Du5236",
     close |-> "u5173u95ED",
     no_output |-> "u65E0u8F93u51FAu4FE1u606F",
     pass_rate |-> "u901Au8FC7u7387",
     test_execution |-> "u6D4Bu8BD5u6267u884Cu60C5u51B5",
     powered_by |-> "u7531 HTMLTestRunner Modern u9A71u52A8",
     generated_on |-> "u751Fu6210u4E8E",
     toggle_theme |-> "u5207u6362u4E3Bu9898"]

I18N_en_US ==
    [title |-> "Test Report",
     start_time |-> "Start Time",
     duration |-> "Duration",
     status |-> "Status",
     tester |-> "Tester",
     test_details |-> "Test Details",
     summary |-> "Summary",
     failed |-> "Failed",
     all |-> "All",
     test_suite |-> "Test Suite / Test Case",
     total |-> "Total",
     pass |-> "Pass",
     fail |-> "Fail",
     error |-> "Error",
     skip |-> "Skip",
     view |-> "View",
     detail |-> "Detail",
     total_summary |-> "Total",
     execution_details |-> "Execution Details",
     copy |-> "Copy",
     copied |-> "Copied",
     close |-> "Close",
     no_output |-> "No output",
     pass_rate |-> "Pass Rate",
     test_execution |-> "Test Execution",
     powered_by |-> "Powered by HTMLTestRunner Modern",
     generated_on |-> "Generated on",
     toggle_theme |-> "Toggle Theme"]

I18N == ("zh-CN" :> I18N_zh_CN) @@ ("en-US" :> I18N_en_US)

\* get_text without the fallback to the key: table[key]
get_text_NoKeyFallback(key, lang) ==
    LET table == IF lang \in DOMAIN I18N THEN I18N[lang] ELSE I18N["zh-CN"]
    IN IF key \in DOMAIN table THEN table[key] ELSE "KeyError"

\* TemplateEngine.get_text: cls.I18N.get(language, cls.I18N['zh-CN']).get(key, key)
get_text(key, lang) ==
    LET table == IF lang \in DOMAIN I18N THEN I18N[lang] ELSE I18N["zh-CN"]
    IN IF key \in DOMAIN table THEN table[key] ELSE key

\* ------------------------------------------------- HTMLTestRunner inputs
\* Constructor arguments.  The empty text stands for title=None / ''.
Languages == {"zh-CN", "en-US", "fr-FR"}
Titles == { << >>, << Chr("<"), Chr("T"), Chr(">") >> }
Descriptions == { << >>, << Chr("a"), Chr("&"), Chr("b") >> }
Testers == { << Chr("QA Team") >>, << Chr("<"), Chr("b"), Chr(">") >> }
Verbosities == {1, 2}

VARIABLES
    pc,                     \* position inside HTMLTestRunner.run
    now,                    \* the clock read by time.time()
    start_time, stop_time,  \* HTMLTestRunner fields
    stream,                 \* what the sink has accepted
    write_calls,            \* number of stream.write calls made
    verbosity,
    title, description, tester, language,   \* HTMLTestRunner settings
    success_count, failure_count, error_count, skip_count,
    results, subtest_list, failures, errors,
    output_buffer, _stdout, _stderr, _test_start_time,
    sys_stdout, sys_stderr,
    stdout_redirector_fp, stderr_redirector_fp,
    console_out, console_err,   \* text that reached the original channels
    open,                   \* tests started and not yet stopped (innermost last)
    started,                \* tests that have received a startTest
    writes,                 \* number of writes made by test bodies
    event                   \* the last lifecycle event delivered

counters == <<success_count, failure_count, error_count, skip_count>>
collector == <<success_count, failure_count, error_count, skip_count,
               results, subtest_list, failures, errors>>
capture == <<output_buffer, _stdout, _stderr, _test_start_time,
             sys_stdout, sys_stderr, stdout_redirector_fp, stderr_redirector_fp>>
consoles == <<console_out, console_err>>
settings == <<verbosity, title, description, tester, language>>
runner == <<pc, now, start_time, stop_time, stream, write_calls,
            verbosity, title, description, tester, language>>
engine == <<open, started, writes>>
vars == <<pc, now, start_time, stop_time, stream, write_calls,
          verbosity, title, description, tester, language,
          success_count, failure_count, error_count, skip_count,
          results, subtest_list, failures, errors,
          output_buffer, _stdout, _stderr, _test_start_time,
          sys_stdout, sys_stderr, stdout_redirector_fp, stderr_redirector_fp,
          console_out, console_err, open, started, writes, event>>

Event(op, test, i, err) == [op |-> op, test |-> test, i |-> i, err |-> err]

\* --------------------------------------------------------------- helpers
\* TestCaseResult tuple (status, test, output, traceback, duration)
Rec(status, test, output, trace, duration) ==
    [status |-> status, test |-> test, output |-> output,
     traceback |-> trace, duration |-> duration]

\* unittest.TestResult._exc_info_to_string(err, test)
ExcInfoToString(err, subj) == << Token("exc", subj, err) >>

\* _exc_info_to_string(err, test) raises
Raises(err) == err \in MalformedOutcomes

\* every exception class counts as a failure
IsFailure_AnyException(err) == err # "None"

\* issubclass(err[0], test.failureException)
IsFailure(err) == err \in {"AssertionError", MalformedFailure}

\* `test in self.subtest_list`
InSubtestList(test) ==
    \E k \in 1..Len(subtest_list) : subtest_list[k] = Subject(test, 0)

\* _get_output: the channels after the call
RestoredOut == IF _stdout # None THEN _stdout[1] ELSE sys_stdout
RestoredErr == IF _stdout # None THEN _stderr[1] ELSE sys_stderr

\* duration measured from the construction of the collector
\* (HTMLTestResult.start_time), which run() does when it starts
GetDuration_SinceConstruction == now - start_time[1]

\* _get_duration
GetDuration == now - _test_start_time

\* Where text written to a channel object ends up.
FpSink(fp) == fp
SinkOf(chan) ==
    IF chan = RedirOut THEN FpSink(stdout_redirector_fp)
    ELSE IF chan = RedirErr THEN FpSink(stderr_redirector_fp)
    ELSE chan

\* _log_result(status, test), executed after _get_output has run
LogText(status, subj) ==
    IF verbosity > 1 THEN Token("log", subj, status)
    ELSE Token("log", Subject(NoTest, 0), status)

\* _log_result executed before _get_output: the status goes to whatever
\* sys.stderr is during the test
GetOutputAndLog_LogFirst(status, subj) ==
    /\ sys_stdout' = RestoredOut
    /\ sys_stderr' = RestoredErr
    /\ _stdout' = None
    /\ _stderr' = None
    /\ LET sink == SinkOf(sys_stderr) IN
        /\ output_buffer' = IF sink = Buffer
                              THEN Append(output_buffer, LogText(status, subj))
                              ELSE output_buffer
        /\ console_err' = IF sink = OrigErr
                            THEN Append(console_err, LogText(status, subj))
                            ELSE console_err
        /\ console_out' = IF sink = OrigOut
                            THEN Append(console_out, LogText(status, subj))
                            ELSE console_out
    /\ UNCHANGED <<_test_start_time, stdout_redirector_fp, stderr_redirector_fp>>

\* _get_output that empties the buffer after reading it
GetOutputAndLog_Reset(status, subj) ==
    /\ sys_stdout' = RestoredOut
    /\ sys_stderr' = RestoredErr
    /\ _stdout' = None
    /\ _stderr' = None
    /\ LET sink == SinkOf(RestoredErr) IN
        /\ output_buffer' = IF sink = Buffer
                              THEN << LogText(status, subj) >>
                              ELSE << >>
        /\ console_err' = IF sink = OrigErr
                            THEN Append(console_err, LogText(status, subj))
                            ELSE console_err
        /\ console_out' = IF sink = OrigOut
                            THEN Append(console_out, LogText(status, subj))
                            ELSE console_out
    /\ UNCHANGED <<_test_start_time, stdout_redirector_fp, stderr_redirector_fp>>

\* The common tail of every recording handler: _get_output restores the
\* channels, then _log_result writes to the (restored) sys.stderr.
GetOutputAndLog(status, subj) ==
    /\ sys_stdout' = RestoredOut
    /\ sys_stderr' = RestoredErr
    /\ _stdout' = None
    /\ _stderr' = None
    /\ LET sink == SinkOf(RestoredErr) IN
        /\ output_buffer' = IF sink = Buffer
                              THEN Append(output_buffer, LogText(status, subj))
                              ELSE output_buffer
        /\ console_err' = IF sink = OrigErr
                            THEN Append(console_err, LogText(status, subj))
                            ELSE console_err
        /\ console_out' = IF sink = OrigOut
                            THEN Append(console_out, LogText(status, subj))
                            ELSE console_out
    /\ UNCHANGED <<_test_start_time, stdout_redirector_fp, stderr_redirector_fp>>

\* ------------------------------------------------------------------ Init
\* HTMLTestRunner.__init__
HTMLTestRunner_init(v, t, d, who, lang) ==
    /\ verbosity = v
    /\ title = IF t # << >> THEN t ELSE << Chr(get_text("title", lang)) >>
    /\ description = d
    /\ tester = who
    /\ language = lang

\* Everything but the constructor arguments: a fresh runner, a fresh
\* collector, the process channels untouched.
InitState ==
    /\ pc = "constructed"
    /\ now = 0
    /\ start_time = None
    /\ stop_time = None
    /\ stream = << >>
    /\ write_calls = 0
    /\ success_count = 0
    /\ failure_count = 0
    /\ error_count = 0
    /\ skip_count = 0
    /\ results = << >>
    /\ subtest_list = << >>
    /\ failures = << >>
    /\ errors = << >>
    /\ output_buffer = << >>
    /\ _stdout = None
    /\ _stderr = None
    /\ _test_start_time = 0
    /\ sys_stdout = OrigOut
    /\ sys_stderr = OrigErr
    /\ stdout_redirector_fp = OrigOut
    /\ stderr_redirector_fp = OrigErr
    /\ console_out = << >>
    /\ console_err = << >>
    /\ open = << >>
    /\ started = {}
    /\ writes = 0
    /\ event = Event("init", NoTest, 0, "None")

\* HTMLTestRunner(stream) with the default arguments
Init ==
    /\ InitState
    /\ HTMLTestRunner_init(1, << >>, << >>, << Chr("QA Team") >>, "zh-CN")

\* HTMLTestRunner(stream, verbosity)
InitVerbose ==
    /\ InitState
    /\ \E v \in Verbosities :
            HTMLTestRunner_init(v, << >>, << >>, << Chr("QA Team") >>, "zh-CN")

\* HTMLTestRunner(stream, verbosity, title, description, tester, language)
InitConfig ==
    /\ InitState
    /\ \E v \in Verbosities, t \in Titles, d \in Descriptions,
          who \in Testers, lang \in Languages :
            HTMLTestRunner_init(v, t, d, who, lang)

\* --------------------------------------------------- HTMLTestRunner.run
RunStart ==
    /\ pc = "constructed"
    /\ pc' = "testing"
    /\ start_time' = Some(now)
    /\ event' = Event("run", NoTest, 0, "None")
    /\ UNCHANGED <<now, stop_time, stream, write_calls, settings>>
    /\ UNCHANGED <<collector, capture, consoles, engine>>

\* ------------------------------------------------------- HTMLTestResult
\* startTest that forgets the sub-results of the test it starts
startTest_ResetMarks(test) ==
    /\ pc = "testing"
    /\ _test_start_time' = now
    /\ output_buffer' = << >>
    /\ stdout_redirector_fp' = Buffer
    /\ stderr_redirector_fp' = Buffer
    /\ _stdout' = Some(sys_stdout)
    /\ _stderr' = Some(sys_stderr)
    /\ sys_stdout' = RedirOut
    /\ sys_stderr' = RedirErr
    /\ subtest_list' = SelectSeq(subtest_list, LAMBDA s : s.test # test)
    /\ open' = Append(open, test)
    /\ started' = started \cup {test}
    /\ event' = Event("startTest", test, 0, "None")
    /\ UNCHANGED <<success_count, failure_count, error_count, skip_count,
                   results, failures, errors>>
    /\ UNCHANGED <<runner, consoles, writes>>

\* startTest that goes on writing into the buffer of the previous test
startTest_KeepBuffer(test) ==
    /\ pc = "testing"
    /\ _test_start_time' = now
    /\ output_buffer' = output_buffer
    /\ stdout_redirector_fp' = Buffer
    /\ stderr_redirector_fp' = Buffer
    /\ _stdout' = Some(sys_stdout)
    /\ _stderr' = Some(sys_stderr)
    /\ sys_stdout' = RedirOut
    /\ sys_stderr' = RedirErr
    /\ open' = Append(open, test)
    /\ started' = started \cup {test}
    /\ event' = Event("startTest", test, 0, "None")
    /\ UNCHANGED <<runner, collector, consoles, writes>>

startTest(test) ==
    /\ pc = "testing"
    /\ _test_start_time' = now
    /\ output_buffer' = << >>
    /\ stdout_redirector_fp' = Buffer
    /\ stderr_redirector_fp' = Buffer
    /\ _stdout' = Some(sys_stdout)
    /\ _stderr' = Some(sys_stderr)
    /\ sys_stdout' = RedirOut
    /\ sys_stderr' = RedirErr
    /\ open' = Append(open, test)
    /\ started' = started \cup {test}
    /\ event' = Event("startTest", test, 0, "None")
    /\ UNCHANGED <<runner, collector, consoles, writes>>

\* Removes the innermost occurrence of test from the open tests.
RECURSIVE RemoveLast(_, _)
RemoveLast(s, x) ==
    IF s = << >> THEN << >>
    ELSE IF s[Len(s)] = x THEN SubSeq(s, 1, Len(s) - 1)
    ELSE Append(RemoveLast(SubSeq(s, 1, Len(s) - 1), x), s[Len(s)])

\* stopTest that forgets to end the capture
stopTest_NoRestore(test) ==
    /\ pc = "testing"
    /\ open' = RemoveLast(open, test)
    /\ event' = Event("stopTest", test, 0, "None")
    /\ UNCHANGED <<capture, runner, collector, consoles, started, writes>>

stopTest(test) ==
    /\ pc = "testing"
    /\ sys_stdout' = RestoredOut
    /\ sys_stderr' = RestoredErr
    /\ _stdout' = None
    /\ _stderr' = None
    /\ open' = RemoveLast(open, test)
    /\ event' = Event("stopTest", test, 0, "None")
    /\ UNCHANGED <<output_buffer, _test_start_time,
                   stdout_redirector_fp, stderr_redirector_fp>>
    /\ UNCHANGED <<runner, collector, consoles, started, writes>>

\* addSuccess without the subtest_list test
addSuccess_Unconditional(test) ==
    /\ pc = "testing"
    /\ success_count' = success_count + 1
    /\ results' = Append(results,
            Rec(PASS, test, output_buffer, << >>, GetDuration))
    /\ GetOutputAndLog("S", Subject(test, 0))
    /\ event' = Event("addSuccess", test, 0, "None")
    /\ UNCHANGED <<failure_count, error_count, skip_count,
                   subtest_list, failures, errors>>
    /\ UNCHANGED <<runner, engine>>

addSuccess(test) ==
    /\ pc = "testing"
    /\ IF ~InSubtestList(test)
       THEN /\ success_count' = success_count + 1
            /\ results' = Append(results,
                    Rec(PASS, test, output_buffer, << >>, GetDuration))
            /\ GetOutputAndLog("S", Subject(test, 0))
            /\ UNCHANGED <<failure_count, error_count, skip_count,
                           subtest_list, failures, errors>>
       ELSE UNCHANGED <<collector, capture, consoles>>
    /\ event' = Event("addSuccess", test, 0, "None")
    /\ UNCHANGED <<runner, engine>>

\* addError that is suppressed for a test with sub-results, as addSuccess is
addError_Suppressed(test, err) ==
    /\ pc = "testing"
    /\ IF ~InSubtestList(test)
       THEN /\ error_count' = error_count + 1
            /\ errors' = Append(errors,
                    [subj |-> Subject(test, 0),
                     text |-> ExcInfoToString(err, Subject(test, 0))])
            /\ results' = Append(results,
                    Rec(ERROR, test, output_buffer,
                        ExcInfoToString(err, Subject(test, 0)), GetDuration))
            /\ GetOutputAndLog("E", Subject(test, 0))
            /\ UNCHANGED <<success_count, failure_count, skip_count,
                           subtest_list, failures>>
       ELSE UNCHANGED <<collector, capture, consoles>>
    /\ event' = Event("addError", test, 0, err)
    /\ UNCHANGED <<runner, engine>>

\* When super().addError raises while formatting err, the handler is left
\* after the counter was raised and before anything else was done.
addError(test, err) ==
    /\ pc = "testing"
    /\ error_count' = error_count + 1
    /\ IF Raises(err)
       THEN UNCHANGED <<errors, results, capture, consoles>>
       ELSE /\ errors' = Append(errors,
                    [subj |-> Subject(test, 0),
                     text |-> ExcInfoToString(err, Subject(test, 0))])
            /\ results' = Append(results,
                    Rec(ERROR, test, output_buffer, errors'[Len(errors')].text,
                        GetDuration))
            /\ GetOutputAndLog("E", Subject(test, 0))
    /\ event' = Event("addError", test, 0, err)
    /\ UNCHANGED <<success_count, failure_count, skip_count, subtest_list, failures>>
    /\ UNCHANGED <<runner, engine>>

\* addFailure that puts the new record in front of the earlier ones
addFailure_Prepend(test, err) ==
    /\ pc = "testing"
    /\ failure_count' = failure_count + 1
    /\ IF Raises(err)
       THEN UNCHANGED <<failures, results, capture, consoles>>
       ELSE /\ failures' = Append(failures,
                    [subj |-> Subject(test, 0),
                     text |-> ExcInfoToString(err, Subject(test, 0))])
            /\ results' = << Rec(FAIL, test, output_buffer,
                                 failures'[Len(failures')].text, GetDuration) >>
                           \o results
            /\ GetOutputAndLog("F", Subject(test, 0))
    /\ event' = Event("addFailure", test, 0, err)
    /\ UNCHANGED <<success_count, error_count, skip_count, subtest_list, errors>>
    /\ UNCHANGED <<runner, engine>>

addFailure(test, err) ==
    /\ pc = "testing"
    /\ failure_count' = failure_count + 1
    /\ IF Raises(err)
       THEN UNCHANGED <<failures, results, capture, consoles>>
       ELSE /\ failures' = Append(failures,
                    [subj |-> Subject(test, 0),
                     text |-> ExcInfoToString(err, Subject(test, 0))])
            /\ results' = Append(results,
                    Rec(FAIL, test, output_buffer, failures'[Len(failures')].text,
                        GetDuration))
            /\ GetOutputAndLog("F", Subject(test, 0))
    /\ event' = Event("addFailure", test, 0, err)
    /\ UNCHANGED <<success_count, error_count, skip_count, subtest_list, errors>>
    /\ UNCHANGED <<runner, engine>>

\* skip detail that is the bare reason
SkipDetail_ReasonOnly(test, reason) ==
    << Token("reason", Subject(test, 0), reason) >>

\* f'Skipped: {reason}'
SkipDetail(test, reason) ==
    << Token("skipped", Subject(test, 0), "Skipped: "),
       Token("reason", Subject(test, 0), reason) >>

\* addSkip that appends the record and forgets the counter
addSkip_NoCount(test, reason) ==
    /\ pc = "testing"
    /\ results' = Append(results,
            Rec(SKIP, test, output_buffer, SkipDetail(test, reason), GetDuration))
    /\ GetOutputAndLog("s", Subject(test, 0))
    /\ event' = Event("addSkip", test, 0, reason)
    /\ UNCHANGED <<success_count, failure_count, error_count, skip_count,
                   subtest_list, failures, errors>>
    /\ UNCHANGED <<runner, engine>>

addSkip(test, reason) ==
    /\ pc = "testing"
    /\ skip_count' = skip_count + 1
    /\ results' = Append(results,
            Rec(SKIP, test, output_buffer, SkipDetail(test, reason), GetDuration))
    /\ GetOutputAndLog("s", Subject(test, 0))
    /\ event' = Event("addSkip", test, 0, reason)
    /\ UNCHANGED <<success_count, failure_count, error_count,
                   subtest_list, failures, errors>>
    /\ UNCHANGED <<runner, engine>>

addSubTest(test, i, err) ==
    /\ pc = "testing"
    /\ LET subtest == Subject(test, i) IN
       IF err # "None"
       THEN IF IsFailure(err)
            THEN /\ failure_count' = failure_count + 1
                 /\ IF Raises(err)
                    THEN UNCHANGED <<failures, results, capture, consoles>>
                    ELSE /\ failures' = Append(failures,
                                [subj |-> subtest,
                                 text |-> ExcInfoToString(err, subtest)])
                         /\ results' = Append(results,
                                Rec(FAIL, test,
                                    Append(output_buffer,
                                           Token("marker", subtest, "SubTest Failed: ")),
                                    ExcInfoToString(err, subtest), GetDuration))
                         /\ GetOutputAndLog("F", subtest)
                 /\ UNCHANGED <<success_count, error_count, skip_count,
                                subtest_list, errors>>
            ELSE /\ error_count' = error_count + 1
                 /\ IF Raises(err)
                    THEN UNCHANGED <<errors, results, capture, consoles>>
                    ELSE /\ errors' = Append(errors,
                                [subj |-> subtest,
                                 text |-> ExcInfoToString(err, subtest)])
                         /\ results' = Append(results,
                                Rec(ERROR, test,
                                    Append(output_buffer,
                                           Token("marker", subtest, "SubTest Error: ")),
                                    ExcInfoToString(err, subtest), GetDuration))
                         /\ GetOutputAndLog("E", subtest)
                 /\ UNCHANGED <<success_count, failure_count, skip_count,
                                subtest_list, failures>>
       ELSE /\ subtest_list' = subtest_list \o << subtest, Subject(test, 0) >>
            /\ success_count' = success_count + 1
            /\ results' = Append(results,
                    Rec(PASS, test,
                        Append(output_buffer,
                               Token("marker", subtest, "SubTest Pass: ")),
                        << >>, GetDuration))
            /\ GetOutputAndLog("S", subtest)
            /\ UNCHANGED <<failure_count, error_count, skip_count,
                           failures, errors>>
    /\ event' = Event("addSubTest", test, i, err)
    /\ UNCHANGED <<runner, engine>>

\* ------------------------------------------------ the running test body
\* The test body (or the engine, when no test is open) prints to
\* sys.stdout or sys.stderr.
Writer == IF open = << >> THEN NoTest ELSE open[Len(open)]

Write(ch) ==
    /\ pc = "testing"
    /\ writes' = writes + 1
    /\ LET chan == IF ch = "out" THEN sys_stdout ELSE sys_stderr
           sink == SinkOf(chan)
           tok == Token("text", Subject(Writer, 0), ch)
       IN /\ output_buffer' = IF sink = Buffer THEN Append(output_buffer, tok)
                                               ELSE output_buffer
          /\ console_out' = IF sink = OrigOut THEN Append(console_out, tok)
                                              ELSE console_out
          /\ console_err' = IF sink = OrigErr THEN Append(console_err, tok)
                                              ELSE console_err
    /\ event' = Event("write", Writer, 0, ch)
    /\ UNCHANGED <<_stdout, _stderr, _test_start_time, sys_stdout, sys_stderr,
                   stdout_redirector_fp, stderr_redirector_fp>>
    /\ UNCHANGED <<runner, collector, open, started>>

\* ----------------------------------------------------------- Aggregator
\* TestClassResult.status_class
status_class(r) ==
    IF r.error_count > 0 THEN "errorClass"
    ELSE IF r.fail_count > 0 THEN "failClass"
    ELSE IF r.skip_count > 0 THEN "skipClass"
    ELSE "passClass"

\* HTMLTestRunner._sort_results: class_map is a mapping keyed by class,
\* class_order the explicit list of keys in first-occurrence order.
EmptyMap == [c \in {} |-> << >>]

RECURSIVE SortLoop(_, _, _, _)
SortLoop(res, k, class_map, class_order) ==
    IF k > Len(res) THEN [class_map |-> class_map, class_order |-> class_order]
    ELSE LET item == res[k]
             cls == item.test.cls
             fresh == cls \notin DOMAIN class_map
             map1 == IF fresh THEN class_map @@ (cls :> << >>) ELSE class_map
             order1 == IF fresh THEN Append(class_order, cls) ELSE class_order
         IN SortLoop(res, k + 1, [map1 EXCEPT ![cls] = Append(@, item)], order1)

\* _sort_results that puts a newly seen class in front (class_order.insert(0, cls))
_sort_results_Reversed(res) ==
    LET r == SortLoop(res, 1, EmptyMap, << >>)
        n == Len(r.class_order)
    IN [g \in 1..n |->
            [cls |-> r.class_order[n + 1 - g],
             cls_results |-> r.class_map[r.class_order[n + 1 - g]]]]

_sort_results(res) ==
    LET r == SortLoop(res, 1, EmptyMap, << >>)
    IN [g \in 1..Len(r.class_order) |->
            [cls |-> r.class_order[g], cls_results |-> r.class_map[r.class_order[g]]]]

\* The per-class counting loop of _generate_report_body
RECURSIVE CountLoop(_, _, _)
CountLoop(cls_results, k, n) ==
    IF k > Len(cls_results) THEN n
    ELSE LET status == cls_results[k].status IN
         CountLoop(cls_results, k + 1,
            IF status = PASS THEN [n EXCEPT !.np = @ + 1]
            ELSE IF status = FAIL THEN [n EXCEPT !.nf = @ + 1]
            ELSE IF status = ERROR THEN [n EXCEPT !.ne = @ + 1]
            ELSE [n EXCEPT !.ns = @ + 1])

\* counting loop whose ERROR branch bumps nf
ClassCounts_ErrorsAsFailures(cls_results) ==
    LET n == CountLoop(cls_results, 1, [np |-> 0, nf |-> 0, ne |-> 0, ns |-> 0])
    IN [n EXCEPT !.nf = n.nf + n.ne, !.ne = 0]

ClassCounts(cls_results) ==
    CountLoop(cls_results, 1, [np |-> 0, nf |-> 0, ne |-> 0, ns |-> 0])

\* style chosen by the largest count instead of by priority
ClassStyle_Majority(n) ==
    IF n.ne > 0 /\ n.ne >= n.nf /\ n.ne >= n.ns /\ n.ne >= n.np THEN "errorClass"
    ELSE IF n.nf > 0 /\ n.nf >= n.ns /\ n.nf >= n.np THEN "failClass"
    ELSE IF n.ns > 0 /\ n.ns >= n.np THEN "skipClass"
    ELSE "passClass"

\* The inline style choice of _generate_report_body
ClassStyle(n) ==
    IF n.ne > 0 THEN "errorClass"
    ELSE IF n.nf > 0 THEN "failClass"
    ELSE IF n.ns > 0 THEN "skipClass"
    ELSE "passClass"

\* The first line of a class docstring / TestCase.shortDescription();
\* class A and the tests of class B are documented, with markup characters.
ClassDoc(cls) == IF cls = "A" THEN << Chr("a"), Chr("<"), Chr("b") >> ELSE << >>

shortDescription(test) ==
    IF test.cls = "B" THEN << Chr("x"), Chr(">"), Chr("y") >> ELSE << >>

\* cls.__module__: class A is defined in the script that is run, class B
\* is imported from a test module.
ClassModule(cls) == IF cls = "B" THEN "test_demo" ELSE "__main__"

\* name = f'{cls.__module__}.{cls.__name__}' if cls.__module__ != '__main__'
\*        else cls.__name__
\* desc = f'{name}: {doc}' if doc else name
ClassDescOf(module, cls_name, doc) ==
    LET name == IF module # "__main__"
                THEN << Chr(module), Chr("."), Chr(cls_name) >>
                ELSE << Chr(cls_name) >>
    IN IF doc # << >> THEN name \o << Chr(": ") >> \o doc ELSE name

ClassDesc(cls) == ClassDescOf(ClassModule(cls), cls, ClassDoc(cls))

TestDesc(test) ==
    IF shortDescription(test) # << >>
    THEN << Chr(test.name), Chr(": ") >> \o shortDescription(test)
    ELSE << Chr(test.name) >>

\* f'c{cid + 1}'
ClassId(cid) == << "c" >> \o FormatInt(cid + 1)

\* CLASS_ROW_TEMPLATE % {...}; cid is the 0-based enumerate index
ClassRow(cid, cls, cls_results) ==
    LET n == ClassCounts(cls_results) IN
    [kind |-> "class",
     style |-> ClassStyle(n),
     desc |-> escape(ClassDesc(cls)),
     count |-> n.np + n.nf + n.ne + n.ns,
     pass |-> n.np, fail |-> n.nf, error |-> n.ne, skip |-> n.ns,
     cid |-> ClassId(cid),
     detail |-> get_text("detail", language)]

\* _generate_test_row
prefix_map(status) ==
    IF status = PASS THEN "p"
    ELSE IF status = FAIL THEN "f"
    ELSE IF status = ERROR THEN "f"
    ELSE IF status = SKIP THEN "s"
    ELSE "p"

style_map(status) ==
    IF status = PASS THEN "none"
    ELSE IF status = FAIL THEN "failCase"
    ELSE IF status = ERROR THEN "errorCase"
    ELSE IF status = SKIP THEN "skipCase"
    ELSE "none"

\* row id that numbers the records without their group: f'{prefix}t1.{tid + 1}'
RowId_NoGroup(cid, tid, status) ==
    << prefix_map(status), "t" >> \o FormatInt(1) \o << "." >> \o FormatInt(tid + 1)

\* row_id = f'{prefix}t{cid + 1}.{tid + 1}'
RowId(cid, tid, status) ==
    << prefix_map(status), "t" >> \o FormatInt(cid + 1) \o << "." >> \o FormatInt(tid + 1)

\* STATUS_LABELS.get(status, ''); non-ASCII text is written as its code points
STATUS_LABELS(status) ==
    IF status = PASS THEN "u901Au8FC7"
    ELSE IF status = FAIL THEN "u5931u8D25"
    ELSE IF status = ERROR THEN "u9519u8BEF"
    ELSE IF status = SKIP THEN "u8DF3u8FC7"
    ELSE ""

_generate_test_row(cid, tid, r) ==
    LET row_id == RowId(cid, tid, r.status)
        content == IF r.output # << >> \/ r.traceback # << >>
                   THEN r.output \o r.traceback
                   ELSE << Chr(get_text("no_output", language)) >>
    IN [kind |-> "test",
        tid |-> row_id,
        style |-> style_map(r.status),
        desc |-> escape(TestDesc(r.test)),
        status |-> STATUS_LABELS(r.status),
        execution_details |-> get_text("execution_details", language),
        copy |-> get_text("copy", language),
        script |-> escape(Chars(row_id) \o << Chr(": ") >> \o content)]

RECURSIVE TestRows(_, _, _)
TestRows(cid, cls_results, tid) ==
    IF tid >= Len(cls_results) THEN << >>
    ELSE << _generate_test_row(cid, tid, cls_results[tid + 1]) >>
         \o TestRows(cid, cls_results, tid + 1)

RECURSIVE ReportRows(_, _)
ReportRows(sorted_results, cid) ==
    IF cid >= Len(sorted_results) THEN << >>
    ELSE LET g == sorted_results[cid + 1] IN
         << ClassRow(cid, g.cls, g.cls_results) >>
         \o TestRows(cid, g.cls_results, 0)
         \o ReportRows(sorted_results, cid + 1)

\* HTMLTestResult.total_count
total_count == success_count + failure_count + error_count + skip_count

\* Python floats are IEEE 754 doubles.  A positive double is written here
\* as [m, e]: the value m / 2^e with 2^52 <= m <= 2^53, and the integer m
\* as three limbs of 20 bits, the least significant first.
Limb == 1048576

Pow2 == << 1, 2, 4, 8, 16, 32, 64, 128, 256, 512, 1024, 2048, 4096, 8192,
           16384, 32768, 65536, 131072, 262144, 524288, 1048576 >>

\* 2^k for k up to 30
Pow2Int(k) == IF k <= 20 THEN Pow2[k + 1] ELSE Limb * Pow2[k - 19]

BigInc(x) ==
    LET a0 == x[1] + 1
        a1 == x[2] + a0 \div Limb
        a2 == x[3] + a1 \div Limb
    IN << a0 % Limb, a1 % Limb, a2 >>

\* 16 * x + digit
BigShl4(x, digit) ==
    LET a0 == 16 * x[1] + digit
        a1 == 16 * x[2] + a0 \div Limb
        a2 == 16 * x[3] + a1 \div Limb
    IN << a0 % Limb, a1 % Limb, a2 >>

BigTimes100(x) ==
    LET a0 == 100 * x[1]
        a1 == 100 * x[2] + a0 \div Limb
        a2 == 100 * x[3] + a1 \div Limb
    IN << a0 % Limb, a1 % Limb, a2 >>

BigOdd(x) == x[1] % 2 = 1

BitLength(n) == CHOOSE k \in 0..20 : IF k = 0 THEN n = 0
                                      ELSE Pow2[k] <= n /\ n < Pow2[k + 1]

BigBitLength(x) ==
    IF x[3] # 0 THEN 40 + BitLength(x[3])
    ELSE IF x[2] # 0 THEN 20 + BitLength(x[2])
    ELSE BitLength(x[1])

\* the limb of x at position k (from 0); 0 beyond the third
LimbAt(x, k) == IF k < 3 THEN x[k + 1] ELSE 0

\* bit i (from 0) of x
BigBit(x, i) == (LimbAt(x, i \div 20) \div Pow2[(i % 20) + 1]) % 2

\* x mod 2^n is zero
BigLowZero(x, n) ==
    /\ \A k \in 0..2 : k < n \div 20 => x[k + 1] = 0
    /\ LimbAt(x, n \div 20) % Pow2[(n % 20) + 1] = 0

\* floor(x / 2^s)
BigShr(x, s) ==
    LET q == s \div 20
        lo == Pow2[(s % 20) + 1]
        hi == Limb \div lo
    IN [k \in 1..3 |->
            LimbAt(x, q + k - 1) \div lo + (LimbAt(x, q + k) % lo) * hi]

\* x / 2^s rounded to the nearest integer, a tie to the even one
RoundShift(x, s) ==
    LET m == BigShr(x, s)
        guard == s > 0 /\ BigBit(x, s - 1) = 1
        sticky == s > 1 /\ ~BigLowZero(x, s - 1)
    IN IF guard /\ (sticky \/ BigOdd(m)) THEN BigInc(m) ELSE m

\* the exponent that brings a / b into [1, 2), for 0 < a <= b
Normalise(a, b) ==
    LET e == CHOOSE k \in 0..30 :
                /\ a * Pow2Int(k) >= b
                /\ k > 0 => a * Pow2Int(k - 1) < b
    IN [n |-> a * Pow2Int(e), e |-> e]

\* k more hexadecimal digits of the quotient r / b by long division
RECURSIVE DivDigits(_, _, _, _)
DivDigits(r, b, k, m) ==
    IF k = 0 THEN [m |-> m, r |-> r]
    ELSE DivDigits((16 * r) % b, b, k - 1, BigShl4(m, (16 * r) \div b))

\* int / int for 0 < a <= b: the double nearest to the quotient
TrueDiv(a, b) ==
    LET n == Normalise(a, b)
        q == DivDigits(n.n - b, b, 13, << 1, 0, 0 >>)
        up == \/ 2 * q.r > b
              \/ 2 * q.r = b /\ BigOdd(q.m)
    IN [m |-> IF up THEN BigInc(q.m) ELSE q.m, e |-> 52 + n.e]

\* float * 100: the double nearest to the product
FloatTimes100(x) ==
    LET p == BigTimes100(x.m)
        d == BigBitLength(p) - 53
    IN [m |-> RoundShift(p, d), e |-> x.e - d]

\* round(x, 2) of a double, in hundredths: the exact value of the double
\* rounded to two decimals, a tie to the even hundredth
Round2(x) ==
    LET h == RoundShift(BigTimes100(x.m), x.e)
    IN h[1] + Limb * h[2]

\* pass rate cut off after the second decimal instead of rounded
PassRate_Truncated(success, total) ==
    IF total # 0 THEN (success * 10000) \div total ELSE 0

\* round(self.success_count / self.total_count * 100, 2) if self.total_count else 0,
\* in hundredths of a percent
PassRate(success, total) ==
    IF total # 0
    THEN IF success = 0 THEN 0
         ELSE Round2(FloatTimes100(TrueDiv(success, total)))
    ELSE 0

\* HTMLTestResult.to_dict
to_dict ==
    [total |-> total_count,
     pass |-> success_count,
     fail |-> failure_count,
     error |-> error_count,
     skip |-> skip_count,
     pass_rate |-> PassRate(success_count, total_count)]

\* TOTAL_ROW_TEMPLATE % {...}
TotalRow ==
    [total_summary |-> get_text("total_summary", language),
     count |-> total_count, pass |-> success_count, fail |-> failure_count,
     error |-> error_count, skip |-> skip_count]

\* REPORT_TEMPLATE % {...}
_generate_report_body ==
    [test_details |-> get_text("test_details", language),
     summary |-> get_text("summary", language),
     failed |-> get_text("failed", language),
     all |-> get_text("all", language),
     test_suite |-> get_text("test_suite", language),
     total |-> get_text("total", language),
     pass |-> get_text("pass", language),
     fail |-> get_text("fail", language),
     error |-> get_text("error", language),
     skip |-> get_text("skip", language),
     view |-> get_text("view", language),
     test_list |-> ReportRows(_sort_results(results), 0),
     total_row |-> TotalRow]

\* document.getElementById over the table rows: the position of the first
\* test row with that id, or 0 (null)
getElementById(rows, id) ==
    LET found == { k \in 1..Len(rows) : rows[k].kind = "test" /\ rows[k].tid = id }
    IN IF found = {} THEN 0
       ELSE CHOOSE k \in found : \A j \in found : k <= j

\* a toggle that looks a row up under the f and p prefixes only
showClassDetail_NoSkipped(rows, cid, count) ==
    LET baseId == Tail(cid)
        tid(i) == << "t" >> \o baseId \o << "." >> \o FormatInt(i)
        row(i) == IF getElementById(rows, << "f" >> \o tid(i)) # 0
                  THEN getElementById(rows, << "f" >> \o tid(i))
                  ELSE getElementById(rows, << "p" >> \o tid(i))
    IN { row(i) : i \in 1..count } \ {0}

\* The client script's showClassDetail(cid, count): the positions of the
\* rows whose display it switches.  baseId = cid.substring(1); for i in
\* 1..count the row is the element with id f, p or s + `t${baseId}.${i}`,
\* in that order of preference.
showClassDetail(rows, cid, count) ==
    LET baseId == Tail(cid)
        tid(i) == << "t" >> \o baseId \o << "." >> \o FormatInt(i)
        row(i) == IF getElementById(rows, << "f" >> \o tid(i)) # 0
                  THEN getElementById(rows, << "f" >> \o tid(i))
                  ELSE IF getElementById(rows, << "p" >> \o tid(i)) # 0
                  THEN getElementById(rows, << "p" >> \o tid(i))
                  ELSE getElementById(rows, << "s" >> \o tid(i))
    IN { row(i) : i \in 1..count } \ {0}

\* str(timedelta) for whole seconds: H:MM:SS, from one day on
\* 'N day, H:MM:SS' / 'N days, H:MM:SS'
TwoDigits(n) == IF n < 10 THEN << "0" >> \o FormatInt(n) ELSE FormatInt(n)

FormatTimedelta(d) ==
    LET days == d \div 86400
        rest == d % 86400
        hms == FormatInt(rest \div 3600) \o << ":" >> \o TwoDigits((rest \div 60) % 60)
               \o << ":" >> \o TwoDigits(rest % 60)
        plural == IF days # 1 THEN << "s" >> ELSE << >>
    IN IF days # 0
       THEN Chars(FormatInt(days) \o << " ", "d", "a", "y" >> \o plural
                  \o << ",", " " >> \o hms)
       ELSE Chars(hms)

\* datetime.strftime: the timestamp written out in decimal
strftime(t) == Chars(FormatInt(t))

\* ' | '.join(parts)
RECURSIVE Join(_)
Join(parts) ==
    IF parts = << >> THEN << >>
    ELSE IF Len(parts) = 1 THEN parts[1]
    ELSE parts[1] \o << Chr(" | ") >> \o Join(Tail(parts))

\* one entry of status_parts: f'{label} {count}', present when count is truthy
StatusPart(key, count) ==
    IF count # 0
    THEN << << Chr(get_text(key, language)), Chr(" ") >> \o Chars(FormatInt(count)) >>
    ELSE << >>

status_parts ==
    StatusPart("pass", success_count) \o StatusPart("fail", failure_count)
    \o StatusPart("error", error_count) \o StatusPart("skip", skip_count)

\* status summary that is left empty when no status has a count
status_str_NoDefault == Join(status_parts)

\* status_str = ' | '.join(status_parts) or 'N/A'
status_str ==
    IF Join(status_parts) # << >> THEN Join(status_parts) ELSE << Chr("N/A") >>

\* STAT_CARD_TEMPLATE % {...}
StatCard(label, value, card_class, icon) ==
    [label |-> label, value |-> escape(value), card_class |-> card_class, icon |-> icon]

\* heading whose duration runs on to the present when the run has no stop
\* timestamp
_generate_heading_RunningClock ==
    LET duration == IF start_time # None
                    THEN FormatTimedelta((IF stop_time # None THEN stop_time[1] ELSE now)
                                         - start_time[1])
                    ELSE Chars(<< "0", ":", "0", "0", ":", "0", "0" >>)
        start_time_str == IF start_time # None THEN strftime(start_time[1]) ELSE << >>
    IN [title |-> escape(title),
        description |-> escape(description),
        stats_cards |->
            << StatCard(get_text("start_time", language), start_time_str,
                        "info", "bi-clock-history"),
               StatCard(get_text("duration", language), duration,
                        "primary", "bi-stopwatch"),
               StatCard(get_text("status", language), status_str,
                        "success", "bi-flag-fill"),
               StatCard(get_text("tester", language), tester,
                        "secondary", "bi-person-fill") >>,
        toggle_theme |-> get_text("toggle_theme", language)]

_generate_heading ==
    LET duration == IF stop_time # None /\ start_time # None
                    THEN FormatTimedelta(stop_time[1] - start_time[1])
                    ELSE Chars(<< "0", ":", "0", "0", ":", "0", "0" >>)
        start_time_str == IF start_time # None THEN strftime(start_time[1]) ELSE << >>
    IN [title |-> escape(title),
        description |-> escape(description),
        stats_cards |->
            << StatCard(get_text("start_time", language), start_time_str,
                        "info", "bi-clock-history"),
               StatCard(get_text("duration", language), duration,
                        "primary", "bi-stopwatch"),
               StatCard(get_text("status", language), status_str,
                        "success", "bi-flag-fill"),
               StatCard(get_text("tester", language), tester,
                        "secondary", "bi-person-fill") >>,
        toggle_theme |-> get_text("toggle_theme", language)]

\* ENDING_TEMPLATE % {...}
_generate_ending ==
    [powered_by |-> get_text("powered_by", language),
     tester |-> tester,
     generated_on |-> get_text("generated_on", language),
     time |-> IF stop_time # None THEN strftime(stop_time[1]) ELSE << >>]

\* CHART_SCRIPT_TEMPLATE % {...}
_generate_chart_script ==
    [pass |-> success_count, fail |-> failure_count,
     error |-> error_count, skip |-> skip_count,
     test_execution |-> get_text("test_execution", language),
     pass_rate |-> get_text("pass_rate", language),
     pass_label |-> get_text("pass", language),
     fail_label |-> get_text("fail", language),
     error_label |-> get_text("error", language),
     skip_label |-> get_text("skip", language)]

\* HTML_TEMPLATE % {...}: the document handed to stream.write
Document ==
    [lang |-> language,
     title |-> escape(title),
     heading |-> _generate_heading,
     report |-> _generate_report_body,
     ending |-> _generate_ending,
     chart_script |-> _generate_chart_script]

\* run(): the test suite has returned
RunStop ==
    /\ pc = "testing"
    /\ pc' = "stopped"
    /\ stop_time' = Some(now)
    /\ event' = Event("stop", NoTest, 0, "None")
    /\ UNCHANGED <<now, start_time, stream, write_calls, settings>>
    /\ UNCHANGED <<collector, capture, consoles, engine>>

\* _generate_report that calls stream.write again when the sink rejects
_generate_report_Retry(sink_ok) ==
    /\ pc = "stopped"
    /\ pc' = IF sink_ok THEN "done" ELSE "failed"
    /\ write_calls' = write_calls + (IF sink_ok THEN 1 ELSE 2)
    /\ stream' = IF sink_ok THEN Append(stream, Document) ELSE stream
    /\ event' = Event("report", NoTest, 0, "None")
    /\ UNCHANGED <<now, start_time, stop_time, settings>>
    /\ UNCHANGED <<collector, capture, consoles, engine>>

\* _generate_report that hands the document over in two writes
_generate_report_TwoWrites(sink_ok) ==
    /\ pc = "stopped"
    /\ pc' = IF sink_ok THEN "done" ELSE "failed"
    /\ write_calls' = write_calls + (IF sink_ok THEN 2 ELSE 1)
    /\ stream' = IF sink_ok THEN stream \o << Document, Document >> ELSE stream
    /\ event' = Event("report", NoTest, 0, "None")
    /\ UNCHANGED <<now, start_time, stop_time, settings>>
    /\ UNCHANGED <<collector, capture, consoles, engine>>

\* run(): _generate_report builds the document and hands it to the sink in
\* one stream.write call; then the run duration is printed to sys.stderr.
\* When the sink rejects the write (sink_ok is FALSE) the exception leaves
\* _generate_report and run: nothing after the write is executed.
_generate_report(sink_ok) ==
    /\ pc = "stopped"
    /\ pc' = IF sink_ok THEN "done" ELSE "failed"
    /\ write_calls' = write_calls + 1
    /\ stream' = IF sink_ok THEN Append(stream, Document) ELSE stream
    /\ LET sink == IF sink_ok THEN SinkOf(sys_stderr) ELSE "none"
           tok == Token("duration", Subject(NoTest, 0), "")
       IN /\ output_buffer' = IF sink = Buffer THEN Append(output_buffer, tok)
                                               ELSE output_buffer
          /\ console_out' = IF sink = OrigOut THEN Append(console_out, tok)
                                              ELSE console_out
          /\ console_err' = IF sink = OrigErr THEN Append(console_err, tok)
                                              ELSE console_err
    /\ event' = Event("report", NoTest, 0, "None")
    /\ UNCHANGED <<now, start_time, stop_time, settings>>
    /\ UNCHANGED <<_stdout, _stderr, _test_start_time, sys_stdout, sys_stderr,
                   stdout_redirector_fp, stderr_redirector_fp>>
    /\ UNCHANGED <<collector, engine>>

\* ------------------------------------------------------- specifications
\* The engine starts a test only after the previous one was stopped; outcome
\* events arrive in any order, for started and for never-started tests;
\* test(result) returns when no test is open.
Next ==
    \/ RunStart
    \/ \E test \in Tests : open = << >> /\ startTest(test)
    \/ \E test \in Tests : stopTest(test)
    \/ \E test \in Tests : Len(results) < MaxResults /\ addSuccess(test)
    \/ \E test \in Tests, err \in ErrorOutcomes :
            Len(results) < MaxResults /\ addError(test, err)
    \/ \E test \in Tests, err \in FailureOutcomes :
            Len(results) < MaxResults /\ addFailure(test, err)
    \/ \E test \in Tests, reason \in Reasons :
            Len(results) < MaxResults /\ addSkip(test, reason)
    \/ \E test \in Tests, i \in SubTests, err \in ErrClasses \cup {"None"} :
            Len(results) < MaxResults /\ addSubTest(test, i, err)
    \/ open = << >> /\ RunStop
    \/ _generate_report(TRUE)

Spec == Init /\ [][Next]_vars

\* Output capture: one test, started and stopped repeatedly, whose body
\* prints to sys.stdout and sys.stderr between the events.
NextSeq ==
    \/ RunStart
    \/ \E test \in SeqTests : open = << >> /\ startTest(test)
    \/ \E test \in SeqTests : stopTest(test)
    \/ \E test \in SeqTests : Len(results) < MaxSeqResults /\ addSuccess(test)
    \/ \E test \in SeqTests, err \in ErrorOutcomes :
            Len(results) < MaxSeqResults /\ addError(test, err)
    \/ \E test \in SeqTests, err \in FailureOutcomes :
            Len(results) < MaxSeqResults /\ addFailure(test, err)
    \/ \E test \in SeqTests, reason \in Reasons :
            Len(results) < MaxSeqResults /\ addSkip(test, reason)
    \/ \E test \in SeqTests, i \in SubTests, err \in ErrClasses \cup {"None"} :
            Len(results) < MaxSeqResults /\ addSubTest(test, i, err)
    \/ \E ch \in {"out", "err"} : writes < MaxWrites /\ Write(ch)

SpecSeq == Init /\ [][NextSeq]_vars

\* The same, at either verbosity.
SpecVerbose == InitVerbose /\ [][NextSeq]_vars

\* The engine as unittest drives it: outcome events are delivered only for
\* the test that is open, between its startTest and its stopTest.
NextDriven ==
    \/ RunStart
    \/ \E test \in Tests : open = << >> /\ startTest(test)
    \/ \E test \in Tests : open = << test >> /\ stopTest(test)
    \/ \E test \in Tests :
            open = << test >> /\ Len(results) < MaxResults /\ addSuccess(test)
    \/ \E test \in Tests, err \in ErrorOutcomes :
            open = << test >> /\ Len(results) < MaxResults /\ addError(test, err)
    \/ \E test \in Tests, err \in FailureOutcomes :
            open = << test >> /\ Len(results) < MaxResults /\ addFailure(test, err)
    \/ \E test \in Tests, reason \in Reasons :
            open = << test >> /\ Len(results) < MaxResults /\ addSkip(test, reason)
    \/ \E test \in Tests, i \in SubTests, err \in ErrClasses \cup {"None"} :
            open = << test >> /\ Len(results) < MaxResults /\ addSubTest(test, i, err)
    \/ open = << >> /\ RunStop
    \/ _generate_report(TRUE)

SpecDriven == Init /\ [][NextDriven]_vars

\* The runner constructed with any arguments, one test driven as unittest
\* drives it, and a sink that accepts or rejects the write.
MaxConfigResults == 2

NextConfig ==
    \/ RunStart
    \/ \E test \in SeqTests : open = << >> /\ startTest(test)
    \/ \E test \in SeqTests : open = << test >> /\ stopTest(test)
    \/ \E test \in SeqTests :
            open = << test >> /\ Len(results) < MaxConfigResults /\ addSuccess(test)
    \/ \E test \in SeqTests, err \in ErrorOutcomes :
            open = << test >> /\ Len(results) < MaxConfigResults /\ addError(test, err)
    \/ \E test \in SeqTests, err \in FailureOutcomes :
            open = << test >> /\ Len(results) < MaxConfigResults /\ addFailure(test, err)
    \/ \E test \in SeqTests, reason \in Reasons :
            open = << test >> /\ Len(results) < MaxConfigResults /\ addSkip(test, reason)
    \/ \E test \in SeqTests, i \in SubTests, err \in ErrClasses \cup {"None"} :
            open = << test >> /\ Len(results) < MaxConfigResults
                /\ addSubTest(test, i, err)
    \/ open = << >> /\ RunStop
    \/ \E sink_ok \in BOOLEAN : _generate_report(sink_ok)

SpecConfig == InitConfig /\ [][NextConfig]_vars

\* One test driven as unittest drives it, with exc_info tuples that may be
\* malformed; the engine goes on after a handler raised.
MaxRaiseEvents == 2

NextRaise ==
    \/ RunStart
    \/ \E test \in SeqTests : open = << >> /\ startTest(test)
    \/ \E test \in SeqTests : open = << test >> /\ stopTest(test)
    \/ \E test \in SeqTests :
            open = << test >> /\ total_count < MaxRaiseEvents /\ addSuccess(test)
    \/ \E test \in SeqTests, err \in ErrorOutcomes \cup MalformedOutcomes :
            open = << test >> /\ total_count < MaxRaiseEvents /\ addError(test, err)
    \/ \E test \in SeqTests, err \in FailureOutcomes \cup MalformedOutcomes :
            open = << test >> /\ total_count < MaxRaiseEvents /\ addFailure(test, err)
    \/ \E test \in SeqTests, reason \in Reasons :
            open = << test >> /\ total_count < MaxRaiseEvents /\ addSkip(test, reason)
    \/ \E test \in SeqTests, i \in SubTests,
          err \in ErrClasses \cup MalformedOutcomes \cup {"None"} :
            open = << test >> /\ total_count < MaxRaiseEvents
                /\ addSubTest(test, i, err)
    \/ open = << >> /\ RunStop
    \/ _generate_report(TRUE)

SpecRaise == Init /\ [][NextRaise]_vars

\* The clock read by time.time() and datetime.datetime.now() advances.
MaxTime == 2

Tick ==
    /\ now < MaxTime
    /\ now' = now + 1
    /\ UNCHANGED <<pc, start_time, stop_time, stream, write_calls, settings>>
    /\ UNCHANGED <<collector, capture, consoles, engine, event>>

\* run(): test(result) raises (KeyboardInterrupt, or a handler that raised);
\* run has no try/finally, so stop_time is never set.
RunInterrupted ==
    /\ pc = "testing"
    /\ pc' = "interrupted"
    /\ event' = Event("interrupt", NoTest, 0, "None")
    /\ UNCHANGED <<now, start_time, stop_time, stream, write_calls, settings>>
    /\ UNCHANGED <<collector, capture, consoles, engine>>

\* a rendering that takes the records out of the collector as it lists them
Render_Drain ==
    /\ pc \in {"constructed", "interrupted", "done"}
    /\ write_calls' = write_calls + 1
    /\ stream' = Append(stream, Document)
    /\ results' = << >>
    /\ event' = Event("render", NoTest, 0, "None")
    /\ UNCHANGED <<pc, now, start_time, stop_time, settings>>
    /\ UNCHANGED <<success_count, failure_count, error_count, skip_count,
                   subtest_list, failures, errors>>
    /\ UNCHANGED <<capture, consoles, engine>>

\* _generate_report(result) called by the embedding program outside run():
\* on a runner that never ran, after an interrupted run, or once more after
\* run() has written the document.
Render ==
    /\ pc \in {"constructed", "interrupted", "done"}
    /\ write_calls' = write_calls + 1
    /\ stream' = Append(stream, Document)
    /\ event' = Event("render", NoTest, 0, "None")
    /\ UNCHANGED <<pc, now, start_time, stop_time, settings>>
    /\ UNCHANGED <<collector, capture, consoles, engine>>

\* One test driven as unittest drives it while the clock advances.
MaxClockResults == 2

NextClock ==
    \/ RunStart
    \/ \E test \in SeqTests : open = << >> /\ startTest(test)
    \/ \E test \in SeqTests : open = << test >> /\ stopTest(test)
    \/ \E test \in SeqTests :
            open = << test >> /\ Len(results) < MaxClockResults /\ addSuccess(test)
    \/ \E test \in SeqTests, err \in ErrorOutcomes :
            open = << test >> /\ Len(results) < MaxClockResults /\ addError(test, err)
    \/ \E test \in SeqTests, err \in FailureOutcomes :
            open = << test >> /\ Len(results) < MaxClockResults /\ addFailure(test, err)
    \/ \E test \in SeqTests, reason \in Reasons :
            open = << test >> /\ Len(results) < MaxClockResults /\ addSkip(test, reason)
    \/ \E test \in SeqTests, i \in SubTests, err \in ErrClasses \cup {"None"} :
            open = << test >> /\ Len(results) < MaxClockResults
                /\ addSubTest(test, i, err)
    \/ Tick

SpecClock == Init /\ [][NextClock]_vars

\* The run as a whole while the clock advances: it completes or is
\* interrupted, and the document is rendered by run() or by a direct call.
MaxElapsedResults == 1
MaxElapsedRenders == 1

NextElapsed ==
    \/ RunStart
    \/ \E test \in SeqTests : open = << >> /\ startTest(test)
    \/ \E test \in SeqTests : open = << test >> /\ stopTest(test)
    \/ \E test \in SeqTests :
            open = << test >> /\ Len(results) < MaxElapsedResults /\ addSuccess(test)
    \/ \E test \in SeqTests, err \in ErrorOutcomes :
            open = << test >> /\ Len(results) < MaxElapsedResults /\ addError(test, err)
    \/ \E test \in SeqTests, err \in FailureOutcomes :
            open = << test >> /\ Len(results) < MaxElapsedResults /\ addFailure(test, err)
    \/ \E test \in SeqTests, reason \in Reasons :
            open = << test >> /\ Len(results) < MaxElapsedResults /\ addSkip(test, reason)
    \/ \E test \in SeqTests, i \in SubTests, err \in ErrClasses \cup {"None"} :
            open = << test >> /\ Len(results) < MaxElapsedResults
                /\ addSubTest(test, i, err)
    \/ Tick
    \/ RunInterrupted
    \/ open = << >> /\ RunStop
    \/ _generate_report(TRUE)
    \/ write_calls < MaxElapsedRenders /\ Render

SpecElapsed == Init /\ [][NextElapsed]_vars

\* Two tests driven as unittest drives them; the document is rendered by
\* run() and by direct calls.
MaxRenderResults == 2
MaxRenders == 2

NextRender ==
    \/ RunStart
    \/ \E test \in Tests : open = << >> /\ startTest(test)
    \/ \E test \in Tests : open = << test >> /\ stopTest(test)
    \/ \E test \in Tests :
            open = << test >> /\ Len(results) < MaxRenderResults /\ addSuccess(test)
    \/ \E test \in Tests, err \in ErrorOutcomes :
            open = << test >> /\ Len(results) < MaxRenderResults /\ addError(test, err)
    \/ \E test \in Tests, err \in FailureOutcomes :
            open = << test >> /\ Len(results) < MaxRenderResults /\ addFailure(test, err)
    \/ \E test \in Tests, reason \in Reasons :
            open = << test >> /\ Len(results) < MaxRenderResults /\ addSkip(test, reason)
    \/ \E test \in Tests, i \in SubTests, err \in ErrClasses \cup {"None"} :
            open = << test >> /\ Len(results) < MaxRenderResults
                /\ addSubTest(test, i, err)
    \/ open = << >> /\ RunStop
    \/ _generate_report(TRUE)
    \/ write_calls < MaxRenders /\ Render

SpecRender == Init /\ [][NextRender]_vars

\* Any sequence of lifecycle events: a test may be started while another
\* one is open, and outcome events arrive for any test.
MaxOpen == 2
MaxNestedResults == 1

NextNested ==
    \/ RunStart
    \/ \E test \in Tests : Len(open) < MaxOpen /\ startTest(test)
    \/ \E test \in Tests : stopTest(test)
    \/ \E test \in Tests : Len(results) < MaxNestedResults /\ addSuccess(test)
    \/ \E test \in Tests, err \in ErrorOutcomes :
            Len(results) < MaxNestedResults /\ addError(test, err)
    \/ \E test \in Tests, err \in FailureOutcomes :
            Len(results) < MaxNestedResults /\ addFailure(test, err)
    \/ \E test \in Tests, reason \in Reasons :
            Len(results) < MaxNestedResults /\ addSkip(test, reason)
    \/ \E test \in Tests, i \in SubTests, err \in ErrClasses \cup {"None"} :
            Len(results) < MaxNestedResults /\ addSubTest(test, i, err)

SpecNested == Init /\ [][NextNested]_vars

\* Two tests driven as unittest drives them, whose bodies print.
MaxCaptureResults == 1

NextCapture ==
    \/ RunStart
    \/ \E test \in Tests : open = << >> /\ startTest(test)
    \/ \E test \in Tests : open = << test >> /\ stopTest(test)
    \/ \E test \in Tests :
            open = << test >> /\ Len(results) < MaxCaptureResults /\ addSuccess(test)
    \/ \E test \in Tests, err \in ErrorOutcomes :
            open = << test >> /\ Len(results) < MaxCaptureResults /\ addError(test, err)
    \/ \E test \in Tests, err \in FailureOutcomes :
            open = << test >> /\ Len(results) < MaxCaptureResults /\ addFailure(test, err)
    \/ \E test \in Tests, reason \in Reasons :
            open = << test >> /\ Len(results) < MaxCaptureResults /\ addSkip(test, reason)
    \/ \E test \in Tests, i \in SubTests, err \in ErrClasses \cup {"None"} :
            open = << test >> /\ Len(results) < MaxCaptureResults
                /\ addSubTest(test, i, err)
    \/ \E ch \in {"out", "err"} : open # << >> /\ writes < MaxWrites /\ Write(ch)

SpecCapture == Init /\ [][NextCapture]_vars

\* ================================================================ claims
OutcomeOps == {"addSuccess", "addError", "addFailure", "addSkip", "addSubTest"}

\* Number of records of a status, by scanning the record list.
CountStatus(status) ==
    Cardinality({k \in 1..Len(results) : results[k].status = status})

\* A record emitted by addSubTest ends with the marker naming the subtest.
IsSubRecord(r) ==
    /\ r.output # << >>
    /\ r.output[Len(r.output)].kind = "marker"

HasSubResult(test) ==
    \E k \in 1..Len(results) : results[k].test = test /\ IsSubRecord(results[k])

HasPassingSub(test) ==
    \E k \in 1..Len(results) :
        /\ results[k].test = test
        /\ IsSubRecord(results[k])
        /\ results[k].status = PASS

RecordsOf(test) == SelectSeq(results, LAMBDA r : r.test = test)

StatusesOf(test) ==
    [k \in 1..Len(RecordsOf(test)) |-> RecordsOf(test)[k].status]

Appended == Len(results') = Len(results) + 1 /\ SubSeq(results', 1, Len(results)) = results

NewRecord == results'[Len(results')]

\* ---------------------------------------------------------------- C1
C1_CountersAgree ==
    /\ success_count = CountStatus(PASS)
    /\ failure_count = CountStatus(FAIL)
    /\ error_count = CountStatus(ERROR)
    /\ skip_count = CountStatus(SKIP)
    /\ total_count = success_count + failure_count + error_count + skip_count
    /\ total_count = Len(results)

C1_StepCounts ==
    Len(results') # Len(results) =>
        /\ Appended
        /\ success_count' = success_count + (IF NewRecord.status = PASS THEN 1 ELSE 0)
        /\ failure_count' = failure_count + (IF NewRecord.status = FAIL THEN 1 ELSE 0)
        /\ error_count' = error_count + (IF NewRecord.status = ERROR THEN 1 ELSE 0)
        /\ skip_count' = skip_count + (IF NewRecord.status = SKIP THEN 1 ELSE 0)

\* C1: after any sequence of lifecycle events each of the four counters
\* equals the number of records of its status in results, total_count is
\* their sum and equals len(results); every step that appends a record
\* increments exactly the counter of the record's status by one.
C1_Counters == [](C1_CountersAgree) /\ [][C1_StepCounts]_vars

C1_Witness ==
    /\ success_count = 1
    /\ failure_count = 1
    /\ skip_count = 1
    /\ Len(results) = 3
    /\ event.op \in OutcomeOps

\* ---------------------------------------------------------------- C2
C2_Step ==
    /\ (event'.op = "addSubTest" /\ event'.err = "None") =>
            /\ Appended
            /\ NewRecord.status = PASS
            /\ NewRecord.test = event'.test
            /\ success_count' = success_count + 1
            /\ UNCHANGED <<failure_count, error_count, skip_count>>
    /\ (event'.op = "addSuccess" /\ HasPassingSub(event'.test)) =>
            /\ results' = results
            /\ UNCHANGED counters

\* C2: a passing sub-result appends one Pass record for its test and raises
\* success_count by one; once a test has a passing sub-result, addSuccess
\* for it appends no record and changes no counter.
C2_PassAfterPassingSubSuppressed == [][C2_Step]_vars

C2_Witness ==
    /\ event.op = "addSuccess"
    /\ HasPassingSub(event.test)
    /\ StatusesOf(event.test) = << PASS >>
    /\ success_count = 1

\* ---------------------------------------------------------------- C3
\* C3: once any sub-result (pass, fail or error) has been recorded for a
\* test, addSuccess for that test appends no record and leaves the pass
\* counter unchanged.
C3_NoPassAfterAnySubResult ==
    [][(event'.op = "addSuccess" /\ HasSubResult(event'.test)) =>
            (results' = results /\ success_count' = success_count)]_vars

\* ---------------------------------------------------------------- C4
C4_Step ==
    /\ event'.op = "addFailure" =>
            /\ Appended
            /\ NewRecord.status = FAIL
            /\ NewRecord.test = event'.test
            /\ failure_count' = failure_count + 1
            /\ UNCHANGED <<success_count, error_count, skip_count>>
    /\ event'.op = "addError" =>
            /\ Appended
            /\ NewRecord.status = ERROR
            /\ NewRecord.test = event'.test
            /\ error_count' = error_count + 1
            /\ UNCHANGED <<success_count, failure_count, skip_count>>

\* C4: addFailure and addError always append exactly one record, Fail and
\* Error respectively, and raise exactly the matching counter by one,
\* whatever sub-results the test recorded before.
C4_FailErrorAlwaysRecorded == [][C4_Step]_vars

\* two passing sub-results, then addError: Pass, Pass, Error
C4_Witness ==
    /\ event.op = "addError"
    /\ StatusesOf(event.test) = << PASS, PASS, ERROR >>
    /\ IsSubRecord(RecordsOf(event.test)[1])
    /\ IsSubRecord(RecordsOf(event.test)[2])
    /\ error_count = 1
    /\ success_count = 2

\* ------------------------------------------------- the written document
Reported == stream # << >>

ReportBody == stream[Len(stream)].report

ClassRowsOf(rows) == SelectSeq(rows, LAMBDA r : r.kind = "class")

\* the digits between the "t" and the "." of a row id
GroupDigits(tid) ==
    LET dot == CHOOSE k \in 1..Len(tid) : tid[k] = "." IN SubSeq(tid, 3, dot - 1)

\* the test rows carrying the group number of a class row
TestRowsOf(rows, class_row) ==
    SelectSeq(rows, LAMBDA r : r.kind = "test" /\ GroupDigits(r.tid) = Tail(class_row.cid))

RECURSIVE Sum(_)
Sum(seq) == IF seq = << >> THEN 0 ELSE seq[1] + Sum(Tail(seq))

\* ---------------------------------------------------------------- C5
\* C5: in the written document, for each status the per-group counts of
\* the class rows add up to the run-level counter of the total row, the
\* total row's count is the sum of its four counters, and each group's four
\* counts add up to its count and to the number of its test rows.
C5_GroupSumsEqualTotals ==
    Reported =>
        LET rows == ReportBody.test_list
            total == ReportBody.total_row
            cr == ClassRowsOf(rows)
        IN /\ Sum([k \in 1..Len(cr) |-> cr[k].pass]) = total.pass
           /\ Sum([k \in 1..Len(cr) |-> cr[k].fail]) = total.fail
           /\ Sum([k \in 1..Len(cr) |-> cr[k].error]) = total.error
           /\ Sum([k \in 1..Len(cr) |-> cr[k].skip]) = total.skip
           /\ total.count = total.pass + total.fail + total.error + total.skip
           /\ \A k \in 1..Len(cr) :
                /\ cr[k].pass + cr[k].fail + cr[k].error + cr[k].skip = cr[k].count
                /\ cr[k].count = Len(TestRowsOf(rows, cr[k]))

C5_Witness ==
    /\ Reported
    /\ Len(ClassRowsOf(ReportBody.test_list)) = 2
    /\ ReportBody.total_row.count = 3
    /\ ReportBody.total_row.error = 1
    /\ \E k \in 1..2 :
            LET row == ClassRowsOf(ReportBody.test_list)[k]
            IN row.pass = 1 /\ row.error = 1

\* ---------------------------------------------------------------- C9
RECURSIVE OfClass(_, _)
OfClass(res, cls) ==
    IF res = << >> THEN << >>
    ELSE IF res[1].test.cls = cls THEN << res[1] >> \o OfClass(Tail(res), cls)
    ELSE OfClass(Tail(res), cls)

FirstPos(res, cls) ==
    CHOOSE k \in 1..Len(res) :
        /\ res[k].test.cls = cls
        /\ \A j \in 1..(k - 1) : res[j].test.cls # cls

\* C9: _sort_results is a stable partition of the record list by class:
\* every record lies in exactly one group, at its place in emission order,
\* no group is empty, and groups are ordered by the position of their
\* first record.
C9_StablePartition ==
    LET groups == _sort_results(results) IN
    /\ \A g \in 1..Len(groups) :
            /\ groups[g].cls_results # << >>
            /\ groups[g].cls_results = OfClass(results, groups[g].cls)
    /\ \A g, h \in 1..Len(groups) : g # h => groups[g].cls # groups[h].cls
    /\ \A k \in 1..Len(results) :
            \E g \in 1..Len(groups) : groups[g].cls = results[k].test.cls
    /\ Sum([g \in 1..Len(groups) |-> Len(groups[g].cls_results)]) = Len(results)
    /\ \A g, h \in 1..Len(groups) :
            g < h => FirstPos(results, groups[g].cls) < FirstPos(results, groups[h].cls)

\* class B reported first, its two records interleaved with a record of A
C9_Witness ==
    /\ Reported
    /\ Len(results) = 3
    /\ results[1].test.cls = "B"
    /\ results[2].test.cls = "A"
    /\ results[3].test.cls = "B"
    /\ results[1] # results[3]
    /\ LET cr == ClassRowsOf(ReportBody.test_list)
       IN /\ Len(cr) = 2
          /\ cr[1].desc = << Chr("test_demo"), Chr("."), Chr("B") >>
          /\ cr[1].count = 2
          /\ cr[2].desc[1] = Chr("A")

\* --------------------------------------------------------------- C10
MaxCount == 3

ExpectedClass(np, nf, ne, ns) ==
    CASE ne > 0 -> "errorClass"
      [] ne = 0 /\ nf > 0 -> "failClass"
      [] ne = 0 /\ nf = 0 /\ ns > 0 -> "skipClass"
      [] OTHER -> "passClass"

\* C10: every class row of the written document carries the class chosen
\* by strict priority error > fail > skip > pass over its counts, and for
\* every count tuple the inline choice of _generate_report_body and
\* TestClassResult.status_class agree with that priority.
C10_StrictPriority ==
    /\ Reported =>
        LET cr == ClassRowsOf(ReportBody.test_list) IN
        \A k \in 1..Len(cr) :
            /\ cr[k].style = ExpectedClass(cr[k].pass, cr[k].fail, cr[k].error, cr[k].skip)
            /\ cr[k].style = status_class([pass_count |-> cr[k].pass,
                                           fail_count |-> cr[k].fail,
                                           error_count |-> cr[k].error,
                                           skip_count |-> cr[k].skip])
    /\ pc = "constructed" =>
        \A np, nf, ne, ns \in 0..MaxCount :
            /\ ClassStyle([np |-> np, nf |-> nf, ne |-> ne, ns |-> ns])
                    = ExpectedClass(np, nf, ne, ns)
            /\ status_class([pass_count |-> np, fail_count |-> nf,
                             error_count |-> ne, skip_count |-> ns])
                    = ExpectedClass(np, nf, ne, ns)

\* one error among two passes classifies the group as error
C10_Witness ==
    /\ Reported
    /\ \E k \in 1..Len(ClassRowsOf(ReportBody.test_list)) :
            LET row == ClassRowsOf(ReportBody.test_list)[k]
            IN row.pass = 2 /\ row.error = 1 /\ row.style = "errorClass"

\* ---------------------------------------------------------------- C6
TestText(console) ==
    { k \in 1..Len(console) :
        console[k].kind = "text" /\ console[k].subj.test \in Tests }

\* C6: while a test is open (between its startTest and its stopTest)
\* sys.stdout and sys.stderr are the redirectors writing to its buffer, and
\* no text written by a test body reaches the original channels.
C6_CaptureHeldUntilStop ==
    /\ open # << >> =>
            /\ sys_stdout = RedirOut
            /\ sys_stderr = RedirErr
            /\ stdout_redirector_fp = Buffer
            /\ stderr_redirector_fp = Buffer
    /\ TestText(console_out) = {}
    /\ TestText(console_err) = {}

\* ---------------------------------------------------------------- C7
C7_RestoredAfterStop ==
    event.op = "stopTest" =>
        /\ sys_stdout = OrigOut
        /\ sys_stderr = OrigErr
        /\ _stdout = None
        /\ _stderr = None

C7_FailureCarriesCapture ==
    event'.op \in {"addFailure", "addError"} =>
        /\ Appended
        /\ NewRecord.output = output_buffer

\* C7: when tests are started one after the other, after every stopTest
\* sys.stdout and sys.stderr are the original channels again, whatever
\* outcome events came before it; and the record appended by addFailure or
\* addError carries the buffer's text as captured up to that event.
C7_ChannelsRestored == [](C7_RestoredAfterStop) /\ [][C7_FailureCarriesCapture]_vars

C7_Witness ==
    /\ event.op = "stopTest"
    /\ event.test \in started
    /\ sys_stdout = OrigOut
    /\ sys_stderr = OrigErr
    /\ \E k \in 1..Len(results) :
            /\ results[k].status \in {FAIL, ERROR}
            /\ results[k].output # << >>
            /\ results[k].output[1].kind = "text"

\* ---------------------------------------------------------------- C8
\* C8: an outcome event for a test that never received startTest appends
\* no record and changes no counter.
C8_UnstartedOutcomeIgnored ==
    [][(event'.op \in OutcomeOps /\ event'.test \notin started) =>
            (results' = results /\ UNCHANGED counters)]_vars

\* --------------------------------------------------------------- C11
MaxId == 11

DigitValue(c) == CHOOSE d \in 0..9 : Digits[d + 1] = c

IsDecimal(s) ==
    /\ s # << >>
    /\ \A k \in 1..Len(s) : \E d \in 0..9 : Digits[d + 1] = s[k]
    /\ Len(s) > 1 => s[1] # "0"

RECURSIVE ParseInt(_)
ParseInt(s) ==
    IF Len(s) = 1 THEN DigitValue(s[1])
    ELSE 10 * ParseInt(SubSeq(s, 1, Len(s) - 1)) + DigitValue(s[Len(s)])

\* the digits after the "." of a row id
RecordDigits(tid) ==
    LET dot == CHOOSE k \in 1..Len(tid) : tid[k] = "." IN SubSeq(tid, dot + 1, Len(tid))

ExpectedPrefix(status) ==
    CASE status = PASS -> "p"
      [] status \in {FAIL, ERROR} -> "f"
      [] status = SKIP -> "s"

\* position, among the rows, of the k-th test row of group g (k = 0: its class row)
RowIndex(groups, g, k) ==
    g + Sum([h \in 1..(g - 1) |-> Len(groups[h].cls_results)]) + k

RowIdentifier(row) == IF row.kind = "class" THEN row.cid ELSE row.tid

\* C11: in a written document the groups carry the ids c1..cN in group
\* order and the k-th record of group g carries <prefix>t<g>.<k> with prefix
\* p for Pass, f for Fail or Error, s for Skip; N groups of Mi records give
\* exactly N + sum(Mi) identifiers, pairwise distinct.  The two id formats
\* are injective in (group, record) and never meet, for all numbers below
\* MaxId.
C11_IdentifiersDistinct ==
    /\ Reported =>
        LET rows == ReportBody.test_list
            groups == _sort_results(results)
        IN /\ Len(rows) = Len(groups)
                    + Sum([g \in 1..Len(groups) |-> Len(groups[g].cls_results)])
           /\ \A g \in 1..Len(groups) :
                /\ LET crow == rows[RowIndex(groups, g, 0)] IN
                    /\ crow.kind = "class"
                    /\ crow.cid[1] = "c"
                    /\ IsDecimal(Tail(crow.cid))
                    /\ ParseInt(Tail(crow.cid)) = g
                /\ \A k \in 1..Len(groups[g].cls_results) :
                    LET row == rows[RowIndex(groups, g, k)] IN
                    /\ row.kind = "test"
                    /\ row.tid[1] = ExpectedPrefix(groups[g].cls_results[k].status)
                    /\ row.tid[2] = "t"
                    /\ IsDecimal(GroupDigits(row.tid))
                    /\ ParseInt(GroupDigits(row.tid)) = g
                    /\ IsDecimal(RecordDigits(row.tid))
                    /\ ParseInt(RecordDigits(row.tid)) = k
           /\ \A i, j \in 1..Len(rows) :
                i # j => RowIdentifier(rows[i]) # RowIdentifier(rows[j])
    /\ pc = "constructed" =>
        \A c1, c2, t1, t2 \in 0..(MaxId - 1), s1, s2 \in {PASS, FAIL, ERROR, SKIP} :
            /\ RowId(c1, t1, s1) = RowId(c2, t2, s2) => (c1 = c2 /\ t1 = t2)
            /\ RowId(c1, t1, s1) # ClassId(c2)
            /\ ClassId(c1) = ClassId(c2) => c1 = c2

\* two groups whose first records are both passes: pt1.1, ft1.2 and pt2.1
C11_Witness ==
    /\ Reported
    /\ LET rows == ReportBody.test_list IN
        /\ Len(rows) = 5
        /\ rows[4].kind = "class"
        /\ rows[1].cid = << "c", "1" >>
        /\ rows[2].tid = << "p", "t", "1", ".", "1" >>
        /\ rows[3].tid = << "f", "t", "1", ".", "2" >>
        /\ rows[4].cid = << "c", "2" >>
        /\ rows[5].tid = << "p", "t", "2", ".", "1" >>

\* --------------------------------------------------------------- C12
WrittenDocument == stream[Len(stream)]

\* markup-special characters present in a text as themselves
RawMarkup(text) == { k \in 1..Len(text) : text[k].txt \in {"&", "<", ">"} }

\* out is what an insertion point may receive for the user text in
IsEscaped(out, in) ==
    /\ Len(out) = Len(in)
    /\ RawMarkup(out) = {}
    /\ \A k \in 1..Len(in) : in[k].txt \notin {"&", "<", ">"} => out[k] = in[k]

\* C12: in the written document every insertion point of user-supplied
\* text (title in the <title> element and in the heading, description,
\* tester in the statistic card and in the footer, class and test
\* descriptions, the output and failure detail of test rows) holds the
\* escaped text: no raw &, < or > reaches the document.
C12_UserTextEscaped ==
    Reported =>
        LET doc == WrittenDocument
            rows == doc.report.test_list
        IN /\ IsEscaped(doc.title, title)
           /\ IsEscaped(doc.heading.title, title)
           /\ IsEscaped(doc.heading.description, description)
           /\ IsEscaped(doc.heading.stats_cards[4].value, tester)
           /\ IsEscaped(doc.ending.tester, tester)
           /\ \A i \in 1..Len(rows) :
                /\ RawMarkup(rows[i].desc) = {}
                /\ rows[i].kind = "test" => RawMarkup(rows[i].script) = {}

\* --------------------------------------------------------------- C13
\* keys of the tables and a key no table has
LookupKeys == DOMAIN I18N_zh_CN \cup DOMAIN I18N_en_US \cup {"no_such_key"}

ExpectedText(key, lang) ==
    CASE lang = "zh-CN" /\ key \in DOMAIN I18N_zh_CN -> I18N_zh_CN[key]
      [] lang = "en-US" /\ key \in DOMAIN I18N_en_US -> I18N_en_US[key]
      [] lang \notin {"zh-CN", "en-US"} /\ key \in DOMAIN I18N_zh_CN -> I18N_zh_CN[key]
      [] OTHER -> key

\* C13: get_text(key, language) yields the entry of the language's own
\* table when the language is supported and has the key, the zh-CN entry
\* when the language is not supported, and the key itself when no entry is
\* found; a runner constructed with an unsupported language gets the zh-CN
\* default title and writes a document carrying the zh-CN labels.
C13_TextLookupFallsBack ==
    /\ pc = "constructed" =>
        /\ \A lang \in Languages, key \in LookupKeys :
                get_text(key, lang) = ExpectedText(key, lang)
        /\ \/ \E t \in Titles : (t # << >> /\ title = t)
           \/ title = << Chr(ExpectedText("title", language)) >>
    /\ Reported =>
        LET doc == WrittenDocument IN
        /\ doc.lang = language
        /\ doc.report.pass = ExpectedText("pass", language)
        /\ doc.report.total_row.total_summary = ExpectedText("total_summary", language)
        /\ doc.heading.stats_cards[3].label = ExpectedText("status", language)
        /\ doc.heading.toggle_theme = ExpectedText("toggle_theme", language)
        /\ doc.ending.powered_by = ExpectedText("powered_by", language)
        /\ doc.chart_script.pass_rate = ExpectedText("pass_rate", language)

\* a document written by a runner whose language has no table
C13_Witness ==
    /\ Reported
    /\ language = "fr-FR"
    /\ title = << Chr(I18N_zh_CN.title) >>
    /\ WrittenDocument.heading.title = << Chr(I18N_zh_CN.title) >>
    /\ WrittenDocument.report.skip = I18N_zh_CN.skip
    /\ Len(results) = 1

\* --------------------------------------------------------------- C14
MaxTotal == 12

Abs(x) == IF x < 0 THEN 0 - x ELSE x

\* rate (in hundredths of a percent) is pass/total*100 rounded to 2 decimals
IsRoundedRate(rate, pass, total) ==
    /\ 2 * Abs(rate * total - 10000 * pass) <= total
    /\ 0 <= rate
    /\ rate <= 10000

\* C14: to_dict() carries the four counters and their sum as total;
\* pass_rate is 0 when total is 0 and pass/total*100 rounded to two decimals
\* otherwise (75.0 for 3 of 4), always between 0 and 100.
C14_SummaryExport ==
    /\ LET d == to_dict IN
        /\ d.pass = success_count
        /\ d.fail = failure_count
        /\ d.error = error_count
        /\ d.skip = skip_count
        /\ d.total = d.pass + d.fail + d.error + d.skip
        /\ d.total = 0 => d.pass_rate = 0
        /\ d.total # 0 => IsRoundedRate(d.pass_rate, d.pass, d.total)
    /\ pc = "constructed" =>
        /\ PassRate(0, 0) = 0
        /\ PassRate(3, 4) = 7500
        /\ \A total \in 1..MaxTotal, pass \in 0..MaxTotal :
                pass <= total => IsRoundedRate(PassRate(pass, total), pass, total)

\* two passes out of three: 66.67
C14_Witness ==
    /\ event.op \in OutcomeOps
    /\ to_dict.pass = 2
    /\ to_dict.total = 3
    /\ to_dict.pass_rate = 6667

\* --------------------------------------------------------------- C15
\* the statuses with a non-zero count, each as "<label> <count>", " | " between
RECURSIVE Listed(_)
Listed(entries) ==
    IF entries = << >> THEN << >>
    ELSE LET rest == Listed(Tail(entries))
             first == << Chr(entries[1].label), Chr(" ") >>
                        \o Chars(FormatInt(entries[1].count))
         IN IF entries[1].count = 0 THEN rest
            ELSE IF rest = << >> THEN first
            ELSE first \o << Chr(" | ") >> \o rest

ExpectedSummary(doc) ==
    LET total == doc.report.total_row
        entries == << [label |-> ExpectedText("pass", language), count |-> total.pass],
                      [label |-> ExpectedText("fail", language), count |-> total.fail],
                      [label |-> ExpectedText("error", language), count |-> total.error],
                      [label |-> ExpectedText("skip", language), count |-> total.skip] >>
    IN IF total.pass = 0 /\ total.fail = 0 /\ total.error = 0 /\ total.skip = 0
       THEN << Chr("N/A") >>
       ELSE Listed(entries)

\* C15: a run that recorded no test still writes a complete document: its
\* counts are all 0, the pass rate is 0, it has no class or test row and its
\* status summary reads "N/A".  In every written document the summary is
\* "N/A" exactly when the four counters are 0, and otherwise it lists the
\* statuses with a non-zero count in the order pass, fail, error, skip.
C15_EmptyRunRenders ==
    Reported =>
        LET doc == WrittenDocument
            total == doc.report.total_row
            summary == doc.heading.stats_cards[3].value
        IN /\ summary = ExpectedSummary(doc)
           /\ summary = << Chr("N/A") >> <=> (total.pass = 0 /\ total.fail = 0
                                              /\ total.error = 0 /\ total.skip = 0)
           /\ results = << >> =>
                /\ doc.report.test_list = << >>
                /\ total.count = 0
                /\ total.pass = 0 /\ total.fail = 0 /\ total.error = 0 /\ total.skip = 0
                /\ doc.chart_script.pass = 0 /\ doc.chart_script.fail = 0
                /\ doc.chart_script.error = 0 /\ doc.chart_script.skip = 0
                /\ to_dict.pass_rate = 0
                /\ summary = << Chr("N/A") >>

\* the document of a run without tests
C15_Witness ==
    /\ Reported
    /\ results = << >>
    /\ pc = "done"
    /\ WrittenDocument.heading.stats_cards[3].value = << Chr("N/A") >>
    /\ WrittenDocument.report.test_list = << >>

\* --------------------------------------------------------------- C16
TestEvents == OutcomeOps \cup {"startTest", "stopTest"}

\* C16: every test event finds the start timestamp recorded, the stop
\* timestamp not yet recorded and the sink untouched; the sink is written
\* only after the stop timestamp is recorded, and a completed run has
\* written to it exactly once.
C16_WriteOnceAfterStop ==
    /\ event.op \in TestEvents =>
            /\ start_time # None
            /\ stop_time = None
            /\ write_calls = 0
            /\ stream = << >>
    /\ pc \in {"constructed", "testing", "stopped"} =>
            /\ write_calls = 0
            /\ stream = << >>
    /\ pc = "testing" => start_time # None /\ stop_time = None
    /\ write_calls > 0 => start_time # None /\ stop_time # None
    /\ write_calls <= 1
    /\ Len(stream) <= write_calls
    /\ pc = "done" => write_calls = 1 /\ Len(stream) = 1

\* a completed run that collected two records before the single write
C16_Witness ==
    /\ pc = "done"
    /\ Len(results) = 2
    /\ write_calls = 1
    /\ Len(stream) = 1
    /\ start_time # None
    /\ stop_time # None

\* --------------------------------------------------------------- C17
C17_FailedRun ==
    pc = "failed" =>
        /\ write_calls = 1
        /\ stream = << >>
        /\ C1_CountersAgree

C17_WriteStep ==
    /\ pc = "failed" => UNCHANGED vars
    /\ write_calls' # write_calls =>
            /\ write_calls' = write_calls + 1
            /\ UNCHANGED collector
            /\ \/ pc' = "failed" /\ stream' = stream
               \/ pc' = "done" /\ Len(stream') = Len(stream) + 1

\* C17: when the sink rejects the write, run() ends in failure: stream.write
\* was called exactly once, the sink holds nothing (the document is handed
\* over in one write, never in parts), nothing is done afterwards, and the
\* collector's records and counters are as they were before the write.
C17_SinkFailurePropagates == [](C17_FailedRun) /\ [][C17_WriteStep]_vars

\* the sink rejected the document of a run with one record
C17_Witness ==
    /\ pc = "failed"
    /\ event.op = "report"
    /\ Len(results) = 1
    /\ total_count = 1
    /\ write_calls = 1
    /\ stream = << >>

\* --------------------------------------------------------------- C18
\* C18: when an outcome handler raises part-way, the collected state stays
\* valid: each counter still equals the number of records of its status,
\* in the collector and in any document written afterwards.
C18_StateValidAfterRaise ==
    /\ success_count = CountStatus(PASS)
    /\ failure_count = CountStatus(FAIL)
    /\ error_count = CountStatus(ERROR)
    /\ skip_count = CountStatus(SKIP)
    /\ Reported =>
        WrittenDocument.report.total_row.count
            = Len(SelectSeq(WrittenDocument.report.test_list,
                            LAMBDA r : r.kind = "test"))

\* --------------------------------------------------------------- C19
LogTokens(text) == { k \in 1..Len(text) : text[k].kind = "log" }

\* C19: at either verbosity the status written by _log_result reaches the
\* original stderr, once per record, and never the capture buffer, the
\* original stdout or a record's captured output; at verbosity 2 it names
\* the subject of the event.
C19_LogBypassesCapture ==
    /\ \A k \in 1..Len(results) : LogTokens(results[k].output) = {}
    /\ LogTokens(output_buffer) = {}
    /\ LogTokens(console_out) = {}
    /\ Cardinality(LogTokens(console_err)) = Len(results)
    /\ \A k \in LogTokens(console_err) :
            IF verbosity > 1 THEN console_err[k].subj.test \in SeqTests
            ELSE console_err[k].subj.test = NoTest

\* verbosity 2: a test printed, then had two outcome events
C19_Witness ==
    /\ verbosity = 2
    /\ Len(results) = 2
    /\ results[1].test = results[2].test
    /\ \E k \in 1..Len(results[1].output) : results[1].output[k].kind = "text"
    /\ results[2].output # << >>
    /\ Cardinality(LogTokens(console_err)) = 2
    /\ event.op \in OutcomeOps

\* --------------------------------------------------------------- C20
\* C20: a Pass record (top-level or sub-result) has an empty failure
\* detail; a Skip record's detail is "Skipped: " followed by the reason
\* given to addSkip; a non-empty detail occurs only in Fail, Error and Skip
\* records, and addSkip appends exactly such a Skip record.
C20_DetailByStatus ==
    /\ \A k \in 1..Len(results) :
        /\ results[k].status = PASS => results[k].traceback = << >>
        /\ results[k].status = SKIP =>
            /\ Len(results[k].traceback) = 2
            /\ results[k].traceback[1].txt = "Skipped: "
            /\ results[k].traceback[2].txt \in Reasons
        /\ results[k].traceback # << >> => results[k].status \in {FAIL, ERROR, SKIP}
    /\ event.op = "addSkip" =>
        /\ results # << >>
        /\ results[Len(results)].status = SKIP
        /\ results[Len(results)].test = event.test
        /\ results[Len(results)].traceback[2].txt = event.err

\* a passing sub-result, a top-level pass of another test and a skip
C20_Witness ==
    /\ event.op = "addSkip"
    /\ Len(results) = 3
    /\ results[1].status = PASS
    /\ IsSubRecord(results[1])
    /\ results[2].status = PASS
    /\ ~IsSubRecord(results[2])
    /\ results[1].traceback = << >>
    /\ results[2].traceback = << >>
    /\ results[3].status = SKIP
    /\ results[3].traceback[1].txt = "Skipped: "
    /\ results[3].traceback[2].txt = "why"

\* ---------------------------------------------------------------- C21
\* The text H:MM:SS of an elapsed time below ten seconds.
ExpectedElapsed(d) ==
    << Chr("0"), Chr(":"), Chr("0"), Chr("0"), Chr(":"), Chr("0"), Chr(Digits[d + 1]) >>

\* The document handed over by the step, when the step rendered one.
Rendered == Len(stream') = Len(stream) + 1

NewDocument == stream'[Len(stream')]

C21_RenderStep ==
    Rendered =>
        /\ NewDocument.heading.stats_cards[2].value =
                IF stop_time = None \/ start_time = None
                THEN ExpectedElapsed(0)
                ELSE ExpectedElapsed(stop_time[1] - start_time[1])
        /\ NewDocument.heading.stats_cards[1].value =
                IF start_time = None THEN << >> ELSE Chars(FormatInt(start_time[1]))
        /\ NewDocument.ending.time =
                IF stop_time = None THEN << >> ELSE Chars(FormatInt(stop_time[1]))

\* C21: every rendering yields a document, also when the stop timestamp is
\* absent: the duration shown is 0:00:00 whenever the stop or the start
\* timestamp is absent and stop - start otherwise, and the footer shows an
\* empty time when the stop timestamp is absent.
C21_AbsentStopRenders == [][C21_RenderStep]_vars

\* an interrupted run rendered two seconds after its start
C21_Witness ==
    /\ pc = "interrupted"
    /\ Len(stream) = 1
    /\ start_time = Some(0)
    /\ stop_time = None
    /\ now = 2
    /\ stream[1].heading.stats_cards[2].value = ExpectedElapsed(0)
    /\ stream[1].ending.time = << >>
    /\ event.op = "render"

\* ---------------------------------------------------------------- C22
C22_Step ==
    /\ results' = results \/ Appended
    /\ event'.op \in {"startTest", "stopTest"} =>
            /\ results' = results
            /\ UNCHANGED counters

\* C22: every lifecycle event leaves the records appended so far unchanged
\* in content and position and appends at most one record at the end;
\* startTest and stopTest append no record and change no counter.
C22_RecordsAppendOnly == [][C22_Step]_vars

\* a failure recorded after a sub-result and a skip, then the test is stopped
C22_Witness ==
    /\ event.op = "stopTest"
    /\ Len(results) = 3
    /\ IsSubRecord(results[1])
    /\ results[2].status = SKIP
    /\ results[3].status = FAIL
    /\ results[3].test # results[2].test
    /\ total_count = 3

\* ---------------------------------------------------------------- C23
C23_Step ==
    /\ Len(subtest_list') >= Len(subtest_list)
    /\ SubSeq(subtest_list', 1, Len(subtest_list)) = subtest_list
    /\ event'.op = "addSuccess" =>
            IF HasPassingSub(event'.test)
            THEN /\ results' = results
                 /\ UNCHANGED counters
            ELSE /\ Appended
                 /\ NewRecord.status = PASS
                 /\ NewRecord.test = event'.test
                 /\ success_count' = success_count + 1

\* C23: the marks left by passing sub-results are never removed, not by a
\* new startTest of the same test either, so addSuccess for a test with a
\* passing sub-result appends nothing and changes no counter, while
\* addSuccess for a test without one appends its Pass record whatever marks
\* other tests have.
C23_MarkPermanent == [][C23_Step]_vars

\* A.m1 got a passing sub-result, B.m1 then passed, A.m1 was started again
\* (the channels are saved anew) and its addSuccess left no record
C23_Witness ==
    /\ event.op = "addSuccess"
    /\ open = << event.test >>
    /\ _stdout # None
    /\ Len(results) = 2
    /\ results[1].test = event.test
    /\ IsSubRecord(results[1])
    /\ results[1].status = PASS
    /\ results[2].test # event.test
    /\ results[2].status = PASS
    /\ ~IsSubRecord(results[2])
    /\ success_count = 2

\* ---------------------------------------------------------------- C24
\* The marker text addSubTest puts after the captured output.
MarkerText(status) ==
    IF status = PASS THEN "SubTest Pass: "
    ELSE IF status = FAIL THEN "SubTest Failed: "
    ELSE "SubTest Error: "

\* The group of class cls in the grouping of res holds r as its last record.
GroupedLast(res, cls, r) ==
    LET groups == _sort_results(res) IN
    \E g \in 1..Len(groups) :
        /\ groups[g].cls = cls
        /\ groups[g].cls_results[Len(groups[g].cls_results)] = r

C24_Step ==
    event'.op = "addSubTest" =>
        LET test == event'.test
            subtest == Subject(test, event'.i)
            err == event'.err
            status == IF err = "None" THEN PASS
                      ELSE IF err \in FailureOutcomes THEN FAIL
                      ELSE ERROR
        IN /\ Appended
           /\ NewRecord.test = test
           /\ NewRecord.status = status
           /\ NewRecord.output =
                  Append(output_buffer, Token("marker", subtest, MarkerText(status)))
           /\ GroupedLast(results', test.cls, NewRecord)
           /\ (subtest_list' # subtest_list) <=> (err = "None")
           /\ err = "None" =>
                  \E k \in 1..Len(subtest_list') : subtest_list'[k] = Subject(test, 0)

\* C24: every record appended by addSubTest carries the owning test and is
\* grouped under that test's class; it is Pass for an absent outcome, Fail
\* for a failureException outcome and Error for any other; its output is
\* the captured output followed by the marker naming the subtest; only the
\* passing branch marks the test as having sub-results.
C24_SubTestRecord == [][C24_Step]_vars

\* a failing sub-result of a test that printed: captured text, marker, no mark
C24_Witness ==
    /\ event.op = "addSubTest"
    /\ event.err \in FailureOutcomes
    /\ Len(results) = 1
    /\ results[1].status = FAIL
    /\ results[1].test = event.test
    /\ Len(results[1].output) = 2
    /\ results[1].output[1].kind = "text"
    /\ results[1].output[2] =
            Token("marker", Subject(event.test, event.i), "SubTest Failed: ")
    /\ subtest_list = << >>
    /\ failure_count = 1

\* ---------------------------------------------------------------- C25
\* The step is a startTest: one more test is open.
Starts == Len(open') > Len(open)

\* The record appended last was emitted by the lifecycle event delivered
\* last, an outcome event of the test that is still open.
LastEventRecorded ==
    /\ results # << >>
    /\ event.op \in OutcomeOps
    /\ ~(event.op = "addSuccess" /\ InSubtestList(event.test))

C25_Step ==
    /\ Starts => _test_start_time' = now
    /\ ~Starts => _test_start_time' = _test_start_time
    /\ Len(results') # Len(results) =>
            /\ Appended
            /\ open = << NewRecord.test >>
            /\ NewRecord.duration = now - _test_start_time
            /\ LastEventRecorded =>
                    /\ results[Len(results)].test = NewRecord.test
                    /\ NewRecord.duration >= results[Len(results)].duration

\* C25: startTest notes the time and no other event, sub-results included,
\* changes it; a record's duration is the time of its emission minus the
\* time noted by the most recent startTest of its test, so the records a
\* test emits one after the other have non-decreasing durations.
C25_DurationFromStart == [][C25_Step]_vars

\* started at 0, a sub-result after one second and an error after two
C25_Witness ==
    /\ Len(results) = 2
    /\ _test_start_time = 0
    /\ now = 2
    /\ IsSubRecord(results[1])
    /\ results[1].duration = 1
    /\ results[2].status = ERROR
    /\ results[2].duration = 2
    /\ results[2].test = results[1].test
    /\ open = << results[2].test >>

\* ---------------------------------------------------------------- C26
\* The text a record captured: its output without the sub-result marker.
Captured(r) ==
    IF IsSubRecord(r) THEN SubSeq(r.output, 1, Len(r.output) - 1) ELSE r.output

C26_OwnTextOnly ==
    \A k \in 1..Len(results) :
        \A j \in 1..Len(results[k].output) :
            results[k].output[j].kind = "text" =>
                results[k].output[j].subj.test = results[k].test

C26_Step ==
    /\ Starts => output_buffer' = << >>
    /\ Len(results') # Len(results) =>
            /\ Appended
            /\ Captured(NewRecord) = output_buffer

\* C26: startTest installs an empty buffer and a record captures what the
\* buffer holds at its emission, so the output of a record emitted for a
\* started test holds only text printed by that test after its startTest,
\* never text printed during a test executed before.
C26_FreshBuffer == [](C26_OwnTextOnly) /\ [][C26_Step]_vars

\* one test printed into its buffer and was stopped; the other test was
\* started and passed with an empty output
C26_Witness ==
    /\ writes = 1
    /\ console_out = << >>
    /\ \A k \in 1..Len(console_err) : console_err[k].kind # "text"
    /\ started = Tests
    /\ Len(results) = 1
    /\ results[1].output = << >>
    /\ open = << results[1].test >>
    /\ output_buffer = << >>
    /\ event.op = "addSuccess"

\* ---------------------------------------------------------------- C27
\* C27: under any sequence of lifecycle events, a startTest that arrives
\* while the previous capture is live included, the saved channels are
\* never the redirector objects (no second capture is laid over a live
\* one), and once every started test has been stopped sys.stdout and
\* sys.stderr are the original channels.
C27_RestorationOnEveryPath ==
    /\ _stdout # None => (_stdout[1] = OrigOut /\ _stderr[1] = OrigErr)
    /\ open = << >> => (sys_stdout = OrigOut /\ sys_stderr = OrigErr)

\* ---------------------------------------------------------------- C28
\* The step calls _get_output: stopTest, or a handler that records.
CallsGetOutput == event'.op = "stopTest" \/ Len(results') # Len(results)

C28_Step ==
    CallsGetOutput =>
        /\ IF _stdout # None
           THEN /\ sys_stdout' = _stdout[1]
                /\ sys_stderr' = _stderr[1]
           ELSE /\ sys_stdout' = sys_stdout
                /\ sys_stderr' = sys_stderr
        /\ _stdout' = None
        /\ _stderr' = None
        /\ output_buffer' = output_buffer
        /\ Len(results') # Len(results) =>
                /\ Captured(NewRecord) = output_buffer
                /\ LastEventRecorded =>
                        Captured(NewRecord) = Captured(results[Len(results)])

\* C28: the first _get_output after a startTest puts the saved channels
\* back and clears the saved handles; every further call, from an outcome
\* handler or from stopTest, leaves sys.stdout, sys.stderr and the buffer
\* as they are and returns the same text while nothing is printed into
\* the buffer.
C28_GetOutputIdempotent == [][C28_Step]_vars

\* the test printed, then a sub-result, a failure and stopTest called
\* _get_output three times: both records captured the same text
C28_Witness ==
    /\ event.op = "stopTest"
    /\ Len(results) = 2
    /\ IsSubRecord(results[1])
    /\ results[2].status = FAIL
    /\ Captured(results[1]) # << >>
    /\ Captured(results[2]) = Captured(results[1])
    /\ output_buffer = Captured(results[2])
    /\ sys_stdout = OrigOut
    /\ sys_stderr = OrigErr
    /\ _stdout = None

\* ---------------------------------------------------------------- C29
\* C29: the written document has one summary row per group and one test
\* row per record; a group's test rows follow its summary row directly, in
\* the order of its records; the count handed to showClassDetail is the
\* number of those rows, they carry the record numbers 1..count under the
\* group's number, and the toggle switches exactly these rows.
C29_ToggleAddressesOwnRows ==
    Reported =>
        LET rows == ReportBody.test_list
            groups == _sort_results(results)
        IN /\ Len(ClassRowsOf(rows)) = Len(groups)
           /\ Len(SelectSeq(rows, LAMBDA r : r.kind = "test")) = Len(results)
           /\ \A g \in 1..Len(groups) :
                LET at == RowIndex(groups, g, 0)
                    crow == rows[at]
                IN /\ crow.kind = "class"
                   /\ crow.count = Len(groups[g].cls_results)
                   /\ at + crow.count <= Len(rows)
                   /\ \A i \in 1..crow.count :
                        /\ rows[at + i].kind = "test"
                        /\ GroupDigits(rows[at + i].tid) = Tail(crow.cid)
                        /\ RecordDigits(rows[at + i].tid) = FormatInt(i)
                        /\ rows[at + i].desc = escape(TestDesc(groups[g].cls_results[i].test))
                   /\ at + crow.count < Len(rows) =>
                        rows[at + crow.count + 1].kind = "class"
                   /\ showClassDetail(rows, crow.cid, crow.count)
                        = (at + 1)..(at + crow.count)

\* a group with a passing and a skipped record, then a group with one
\* record: the toggles switch rows 2, 3 and row 5
C29_Witness ==
    /\ Reported
    /\ LET rows == ReportBody.test_list IN
        /\ Len(rows) = 5
        /\ rows[1].kind = "class"
        /\ rows[4].kind = "class"
        /\ rows[3].tid = << "s", "t", "1", ".", "2" >>
        /\ showClassDetail(rows, rows[1].cid, rows[1].count) = {2, 3}
        /\ showClassDetail(rows, rows[4].cid, rows[4].count) = {5}

\* ---------------------------------------------------------------- C30
\* the previous step rendered too: nothing was collected in between
RenderedJustBefore == stream # << >> /\ event.op \in {"report", "render"}

C30_Step ==
    Rendered =>
        /\ results' = results
        /\ success_count' = success_count
        /\ failure_count' = failure_count
        /\ error_count' = error_count
        /\ skip_count' = skip_count
        /\ subtest_list' = subtest_list
        /\ RenderedJustBefore =>
                /\ NewDocument.report = stream[Len(stream)].report
                /\ NewDocument.heading.stats_cards = stream[Len(stream)].heading.stats_cards

\* C30: a rendering leaves the records and the four counters as they
\* are, and a rendering that follows another one of the same collected
\* result gives the same table: the same groups in the same order with the
\* same counts, classifications and identifiers.
C30_RenderingReadsOnly == [][C30_Step]_vars

\* run() wrote the document of two groups and the program rendered the
\* same result once more
C30_Witness ==
    /\ pc = "done"
    /\ event.op = "render"
    /\ Len(stream) = 2
    /\ Len(results) = 2
    /\ Len(ClassRowsOf(stream[2].report.test_list)) = 2
    /\ stream[2].report = stream[1].report

\* ---------------------------------------------------------------- C31
\* the key of the language tables that names a status
StatusKey(status) ==
    CASE status = PASS -> "pass"
      [] status = FAIL -> "fail"
      [] status = ERROR -> "error"
      [] status = SKIP -> "skip"

\* the labels the templates take from _get_text, in a written document
TemplateLabelsLocalized ==
    (Reported /\ language \in DOMAIN I18N) =>
        LET doc == WrittenDocument
            T == I18N[language]
        IN /\ doc.heading.stats_cards[1].label = T["start_time"]
           /\ doc.heading.stats_cards[2].label = T["duration"]
           /\ doc.heading.stats_cards[3].label = T["status"]
           /\ doc.heading.stats_cards[4].label = T["tester"]
           /\ doc.heading.toggle_theme = T["toggle_theme"]
           /\ \A key \in {"test_details", "summary", "failed", "all", "test_suite",
                            "total", "pass", "fail", "error", "skip", "view"} :
                doc.report[key] = T[key]
           /\ doc.report.total_row.total_summary = T["total_summary"]
           /\ doc.ending.powered_by = T["powered_by"]
           /\ doc.ending.generated_on = T["generated_on"]
           /\ doc.chart_script.test_execution = T["test_execution"]
           /\ doc.chart_script.pass_rate = T["pass_rate"]
           /\ \A k \in 1..Len(doc.report.test_list) :
                LET row == doc.report.test_list[k] IN
                IF row.kind = "class"
                THEN row.detail = T["detail"]
                ELSE /\ row.execution_details = T["execution_details"]
                     /\ row.copy = T["copy"]

\* the status label of every test row, in a written document
StatusLabelsLocalized ==
    (Reported /\ language \in DOMAIN I18N) =>
        LET rows == ReportBody.test_list
            groups == _sort_results(results)
        IN \A g \in 1..Len(groups) : \A k \in 1..Len(groups[g].cls_results) :
               rows[RowIndex(groups, g, k)].status
                   = I18N[language][StatusKey(groups[g].cls_results[k].status)]

\* C31: in a document written for a supported language, every label,
\* the status label of each test row included, is the entry of that
\* language's table for the label's key.
C31_LabelsFromLanguageTable ==
    TemplateLabelsLocalized /\ StatusLabelsLocalized

====
